---- MODULE Spec2Model ----
(***************************************************************************)
(* A model of the JCB report builder (src/jcb/generate.py, validate.py,    *)
(* config.py and src/shared/csv_utils.py).                                 *)
(*                                                                         *)
(* Texts are sequences of character tokens, so the empty text is << >>;    *)
(* Japanese keywords and characters are written as ASCII tokens            *)
(* ("jp_login" for the katakana keyword, "yen" for the unit character).    *)
(* A slide is a sequence of shapes; a table shape carries its grid and its *)
(* cells, a cell is a sequence of paragraphs and a paragraph a sequence of *)
(* runs.  Lengths are in EMU, font sizes in half points.                   *)
(***************************************************************************)
EXTENDS Integers, Sequences, FiniteSets, TLC

(***************************************************************************)
(* Bounds of the model (not program constants).                            *)
(***************************************************************************)
MaxSummaryRows == 2
MaxExtraRows == 2
MaxDocSlides == 2
MaxRuns == 3
MaxOldDirs == 3
MaxShapes == 3
MaxWide == 4

(***************************************************************************)
(* config.py                                                               *)
(***************************************************************************)
TABLE_COLUMNS == <<"brand_name", "total_price", "total_count", "unique_user_count">>
TABLE_MAX_ROWS == 10
BRAND_DONUT_MAX == 8
Roles == {"login", "purchase", "brand", "summary"}
CSV_PATTERNS ==
  [login    |-> {"login", "jp_login"},
   purchase |-> {"purchase", "jp_purchase"},
   brand    |-> {"brand", "jp_brand", "jp_sales"},
   summary  |-> {"summary", "jp_summary"}]

(***************************************************************************)
(* Texts and values                                                        *)
(***************************************************************************)
EmptyText == << >>

DigitTok(d) == <<"0", "1", "2", "3", "4", "5", "6", "7", "8", "9">>[d + 1]

RECURSIVE Digits(_)
Digits(n) == IF n < 10 THEN <<DigitTok(n)>>
             ELSE Digits(n \div 10) \o <<DigitTok(n % 10)>>

Pad3(n) == <<DigitTok(n \div 100), DigitTok((n \div 10) % 10), DigitTok(n % 10)>>

\* f"{int(val):,}"
RECURSIVE FmtInt(_)
FmtInt(n) == IF n < 1000 THEN Digits(n)
             ELSE FmtInt(n \div 1000) \o <<",">> \o Pad3(n % 1000)

\* A value of a data frame cell: a number, NaN, a string or an absent column.
Num(n) == [t |-> "num", n |-> n, s |-> EmptyText]
Str(s) == [t |-> "str", n |-> 0, s |-> s]
NaN == [t |-> "nan", n |-> 0, s |-> EmptyText]
Absent == [t |-> "absent", n |-> 0, s |-> EmptyText]

ColUnit(col) ==
  CASE col = "total_price" -> <<"yen">>
    [] col = "total_count" -> <<"ken">>
    [] col = "unique_user_count" -> <<"nin">>
    [] OTHER -> EmptyText

\* The text fill_table_by_ref writes for value v of column col.
CellTextOf(col, v) ==
  LET val == CASE v.t = "absent" -> EmptyText
               [] v.t = "nan" -> EmptyText
               [] v.t = "num" -> IF col # "brand_name" THEN FmtInt(v.n) ELSE Digits(v.n)
               [] OTHER -> v.s
  IN IF val # EmptyText THEN val \o ColUnit(col) ELSE EmptyText

(***************************************************************************)
(* Font shrinking (sizes in half points: 21 = 10.5pt, 14 = 7.0pt)          *)
(***************************************************************************)
DEFAULT_CELL_MARGIN == 91440
BaseSize2 == 21
MinSize2 == 14
NoFont == 0
\* text_width * size_pt * 12700 with both factors doubled: 12700 / 4
EmuPerQuarter == 3175

\* tokens that stand for one full-width (east asian width F or W) character
WideToks == {"W", "yen", "ken", "nin"}

\* _estimate_text_width, in half-character units (full width = 2, half = 1)
RECURSIVE EstimateTextWidth2(_)
\* EstimateTextWidth2 that counts every character as half-width
EstimateTextWidth2_Chars(text) == Len(text)

EstimateTextWidth2(text) ==
  IF text = EmptyText THEN 0
  ELSE (IF Head(text) \in WideToks THEN 2 ELSE 1) + EstimateTextWidth2(Tail(text))

RECURSIVE ShrinkFrom(_, _, _)
ShrinkFrom(size2, w2, effective) ==
  IF size2 < MinSize2 THEN MinSize2
  ELSE IF w2 * size2 * EmuPerQuarter <= effective THEN size2
  ELSE ShrinkFrom(size2 - 1, w2, effective)

\* CalcFontSizeForCell that takes the margin off one side only
CalcFontSizeForCell_OneMargin(text, col_width) ==
  LET effective == col_width - DEFAULT_CELL_MARGIN
      w2 == EstimateTextWidth2(text)
  IN IF w2 = 0 THEN NoFont
     ELSE IF w2 * BaseSize2 * EmuPerQuarter <= effective THEN NoFont
     ELSE ShrinkFrom(BaseSize2 - 1, w2, effective)

\* _calc_font_size_for_cell; NoFont stands for None
CalcFontSizeForCell(text, col_width) ==
  LET effective == col_width - DEFAULT_CELL_MARGIN * 2
      w2 == EstimateTextWidth2(text)
  IN IF w2 = 0 THEN NoFont
     ELSE IF w2 * BaseSize2 * EmuPerQuarter <= effective THEN NoFont
     ELSE ShrinkFrom(BaseSize2 - 1, w2, effective)

(***************************************************************************)
(* Paragraphs, cells and tables                                            *)
(***************************************************************************)
Run(text, sz) == [text |-> text, sz |-> sz]
Para(runs, compact) == [runs |-> runs, compact |-> compact]

\* _ensure_compact_spacing
EnsureCompactSpacing(para) == [para EXCEPT !.compact = TRUE]

RECURSIVE FirstWithRuns(_, _)
FirstWithRuns(paras, k) ==
  IF k > Len(paras) THEN 0
  ELSE IF Len(paras[k].runs) > 0 THEN k
  ELSE FirstWithRuns(paras, k + 1)

\* SetCellText without the calls of _ensure_compact_spacing
SetCellText_NoSpacing(cell, text, font) ==
  LET k == FirstWithRuns(cell, 1)
  IN IF k > 0
     THEN [cell EXCEPT ![k] =
            [@ EXCEPT !.runs = [r \in 1..Len(@) |->
               IF r = 1 THEN Run(text, IF font # NoFont THEN font ELSE @[r].sz)
               ELSE Run(EmptyText, @[r].sz)]]]
     ELSE IF text # EmptyText
     THEN [cell EXCEPT ![1] = Para(<<Run(text, NoFont)>>, FALSE)]
     ELSE cell

\* _set_cell_text: a cell is its sequence of paragraphs
SetCellText(cell, text, font) ==
  LET k == FirstWithRuns(cell, 1)
  IN IF k > 0
     THEN [cell EXCEPT ![k] = EnsureCompactSpacing(
            [@ EXCEPT !.runs = [r \in 1..Len(@) |->
               IF r = 1 THEN Run(text, IF font # NoFont THEN font ELSE @[r].sz)
               ELSE Run(EmptyText, @[r].sz)]])]
     ELSE IF text # EmptyText
     THEN [cell EXCEPT ![1] = EnsureCompactSpacing(Para(<<Run(text, NoFont)>>, FALSE))]
     ELSE cell

RECURSIVE RunsText(_)
RunsText(runs) == IF runs = << >> THEN EmptyText
                  ELSE Head(runs).text \o RunsText(Tail(runs))

\* cell.text: the paragraphs' texts joined by line feeds
RECURSIVE CellText(_)
CellText(cell) ==
  IF Len(cell) = 0 THEN EmptyText
  ELSE IF Len(cell) = 1 THEN RunsText(cell[1].runs)
  ELSE RunsText(cell[1].runs) \o <<"\n">> \o CellText(Tail(cell))

(***************************************************************************)
(* Shapes.  kind is "table" (has_table), "pic" (shape_type PICTURE) or     *)
(* "text" (has_text_frame); marks is the set of marker substrings that     *)
(* occur in the shape's text and blank says that the text strips to "".    *)
(***************************************************************************)
NoTbl == [col_widths |-> << >>, row_heights |-> << >>, cells |-> << >>]

Shape(id, kind, marks, blank, top, left, width, height, tbl, paras, img) ==
  [id |-> id, kind |-> kind, marks |-> marks, blank |-> blank,
   top |-> top, left |-> left, width |-> width, height |-> height,
   tbl |-> tbl, paras |-> paras, img |-> img]

\* A data frame is a sequence of rows, a row a record over TABLE_COLUMNS.
DfGet(row, col) ==
  CASE col = "brand_name" -> row.brand_name
    [] col = "total_price" -> row.total_price
    [] col = "total_count" -> row.total_count
    [] OTHER -> row.unique_user_count

\* fill_table_by_ref raises IndexError on rows[i + 1] or col_widths[0]
FillRaises(shape) ==
  /\ shape.kind = "table"
  /\ \/ Len(shape.tbl.cells) < TABLE_MAX_ROWS + 1
     \/ Len(shape.tbl.col_widths) = 0

\* FillCell without lines 228-230: rows without data keep their content
FillCell_KeepsUnused(cell, df, i, j, brand_col_width) ==
  IF i <= Len(df) /\ j <= Len(TABLE_COLUMNS)
  THEN LET text == CellTextOf(TABLE_COLUMNS[j], DfGet(df[i], TABLE_COLUMNS[j]))
           font == IF j = 1 /\ text # EmptyText
                   THEN CalcFontSizeForCell(text, brand_col_width)
                   ELSE NoFont
       IN SetCellText(cell, text, font)
  ELSE IF i <= Len(df) THEN SetCellText(cell, EmptyText, NoFont)
  ELSE cell

\* One cell of data row i (1-based) and column j (1-based) after the fill.
FillCell(cell, df, i, j, brand_col_width) ==
  IF i <= Len(df) /\ j <= Len(TABLE_COLUMNS)
  THEN LET text == CellTextOf(TABLE_COLUMNS[j], DfGet(df[i], TABLE_COLUMNS[j]))
           font == IF j = 1 /\ text # EmptyText
                   THEN CalcFontSizeForCell(text, brand_col_width)
                   ELSE NoFont
       IN SetCellText(cell, text, font)
  ELSE SetCellText(cell, EmptyText, NoFont)

\* fill_table_by_ref (only called when FillRaises is false)
FillTableByRef(shape, df) ==
  IF shape.kind # "table" THEN shape
  ELSE LET cells == shape.tbl.cells
           n_cols == Len(cells[1])
           brand_col_width == shape.tbl.col_widths[1]
       IN [shape EXCEPT !.tbl.cells =
            [ri \in 1..Len(cells) |->
              IF ri >= 2 /\ ri <= TABLE_MAX_ROWS + 1
              THEN [j \in 1..Len(cells[ri]) |->
                     IF j <= n_cols
                     THEN FillCell(cells[ri][j], df, ri - 1, j, brand_col_width)
                     ELSE cells[ri][j]]
              ELSE cells[ri]]]

(***************************************************************************)
(* _detect_shapes.  Marker substrings are written as ASCII tokens:         *)
(* m_title, m_kikan, m_reg, m_ryutsu, m_soukounyu, m_top, m_purchase_trend,*)
(* m_login_trend and m_brand stand for the Japanese markers of lines       *)
(* 322-338.  A reference is a shape id, 0 when the role was not found.     *)
(***************************************************************************)
TextRoles == {"title", "period", "reg_users", "mau", "distribution",
              "top_tickets_label", "purchase_chart_label",
              "login_chart_label", "brand_chart_label", "empty_text"}
ImageRoles == {"login_chart_image", "purchase_chart_image",
               "brand_chart_image1", "brand_chart_image2"}
AllRoles == TextRoles \cup ImageRoles \cup {"table"}

SetMax(S) == CHOOSE x \in S : \A y \in S : y <= x
SetMin(S) == CHOOSE x \in S : \A y \in S : x <= y

\* rows sorted by ascending key (keys[i] is the key of rows[i]), rows of
\* equal keys in their order
SortRows(rows, keys) ==
  [r \in 1..Len(rows) |->
     rows[CHOOSE i \in 1..Len(rows) :
            Cardinality({j \in 1..Len(rows) :
               keys[j] < keys[i] \/ (keys[j] = keys[i] /\ j < i)}) = r - 1]]


\* TextRole with the MAU test of line 328 moved to the front
TextRole_MauFirst(shape, slide) ==
  IF "MAU" \in shape.marks THEN "mau"
  ELSE IF "m_title" \in shape.marks THEN "title"
  ELSE IF "m_kikan" \in shape.marks /\ "yyyy" \in shape.marks THEN "period"
  ELSE IF "m_reg" \in shape.marks THEN "reg_users"
  ELSE IF "m_ryutsu" \in shape.marks \/ "m_soukounyu" \in shape.marks THEN "distribution"
  ELSE IF "m_top" \in shape.marks \/ "TOP10" \in shape.marks THEN "top_tickets_label"
  ELSE IF "m_purchase_trend" \in shape.marks THEN "purchase_chart_label"
  ELSE IF "m_login_trend" \in shape.marks THEN "login_chart_label"
  ELSE IF "m_brand" \in shape.marks THEN "brand_chart_label"
  ELSE IF shape.blank /\ shape.left > slide[1].left THEN "empty_text"
  ELSE "none"

\* the if/elif chain of lines 322-343
TextRole(shape, slide) ==
  IF "m_title" \in shape.marks THEN "title"
  ELSE IF "m_kikan" \in shape.marks /\ "yyyy" \in shape.marks THEN "period"
  ELSE IF "m_reg" \in shape.marks THEN "reg_users"
  ELSE IF "MAU" \in shape.marks THEN "mau"
  ELSE IF "m_ryutsu" \in shape.marks \/ "m_soukounyu" \in shape.marks THEN "distribution"
  ELSE IF "m_top" \in shape.marks \/ "TOP10" \in shape.marks THEN "top_tickets_label"
  ELSE IF "m_purchase_trend" \in shape.marks THEN "purchase_chart_label"
  ELSE IF "m_login_trend" \in shape.marks THEN "login_chart_label"
  ELSE IF "m_brand" \in shape.marks THEN "brand_chart_label"
  ELSE IF shape.blank /\ shape.left > slide[1].left THEN "empty_text"
  ELSE "none"

ShapeById(slide, id) == slide[CHOOSE k \in 1..Len(slide) : slide[k].id = id]
HasShape(slide, id) == \E k \in 1..Len(slide) : slide[k].id = id

\* indices of the pictures of the slide (picture_shapes, in shape order)
PictureIdx(slide) == {k \in 1..Len(slide) : slide[k].kind = "pic"}

\* refs[role] for the table and the text roles: the last matching shape
BasicRef(slide, role) ==
  LET S == IF role = "table"
           THEN {k \in 1..Len(slide) : slide[k].kind = "table"}
           ELSE {k \in 1..Len(slide) : slide[k].kind = "text"
                                        /\ TextRole(slide[k], slide) = role}
  IN IF S = {} THEN 0 ELSE slide[SetMax(S)].id

\* the loop of lines 356-362 from shape k on: best is the index of the best
\* picture so far (0 for None) and best_dist its distance (-1 for infinity)
RECURSIVE PicScan(_, _, _, _, _)
PicScan(slide, k, label_top, best, best_dist) ==
  IF k > Len(slide) THEN best
  ELSE IF /\ slide[k].kind = "pic"
          /\ slide[k].top > label_top
          /\ (best_dist = -1 \/ slide[k].top - label_top < best_dist)
  THEN PicScan(slide, k + 1, label_top, k, slide[k].top - label_top)
  ELSE PicScan(slide, k + 1, label_top, best, best_dist)

\* PicScan that takes a picture at the same distance as the best so far
RECURSIVE PicScanLast(_, _, _, _, _)
PicScanLast(slide, k, label_top, best, best_dist) ==
  IF k > Len(slide) THEN best
  ELSE IF /\ slide[k].kind = "pic"
          /\ slide[k].top > label_top
          /\ (best_dist = -1 \/ slide[k].top - label_top <= best_dist)
  THEN PicScanLast(slide, k + 1, label_top, k, slide[k].top - label_top)
  ELSE PicScanLast(slide, k + 1, label_top, best, best_dist)

\* FindPictureBelow with "dist <= best_dist" at line 360
FindPictureBelow_LastOfTies(slide, label_key) ==
  LET lab == BasicRef(slide, label_key)
  IN IF lab = 0 THEN 0
     ELSE LET best == PicScanLast(slide, 1, ShapeById(slide, lab).top, 0, -1)
          IN IF best = 0 THEN 0 ELSE slide[best].id

\* _find_picture_below
FindPictureBelow(slide, label_key) ==
  LET lab == BasicRef(slide, label_key)
  IN IF lab = 0 THEN 0
     ELSE LET best == PicScan(slide, 1, ShapeById(slide, lab).top, 0, -1)
          IN IF best = 0 THEN 0 ELSE slide[best].id

\* brand_pics of lines 371-374 (as indices)
BrandPics(slide) ==
  LET lab == BasicRef(slide, "brand_chart_label")
  IN IF lab = 0 THEN {}
     ELSE {k \in PictureIdx(slide) :
             /\ slide[k].top > ShapeById(slide, lab).top
             /\ slide[k].id # FindPictureBelow(slide, "login_chart_label")
             /\ slide[k].id # FindPictureBelow(slide, "purchase_chart_label")}

\* the elements of a set of numbers in ascending order
RECURSIVE Ascending(_)
Ascending(S) == IF S = {} THEN << >>
                ELSE <<SetMin(S)>> \o Ascending(S \ {SetMin(S)})

\* BrandPicsSorted without reverse=True
BrandPicsSorted_Narrowest(slide) ==
  LET pics == Ascending(BrandPics(slide))
  IN SortRows(pics, [k \in 1..Len(pics) |-> slide[pics[k]].width])

\* line 376: brand_pics.sort(key=width, reverse=True), a stable sort
BrandPicsSorted(slide) ==
  LET pics == Ascending(BrandPics(slide))
  IN SortRows(pics, [k \in 1..Len(pics) |-> 0 - slide[pics[k]].width])

DetectShapes(slide) ==
  [role \in AllRoles |->
     CASE role = "login_chart_image" -> FindPictureBelow(slide, "login_chart_label")
       [] role = "purchase_chart_image" -> FindPictureBelow(slide, "purchase_chart_label")
       [] role = "brand_chart_image1" ->
            IF Len(BrandPicsSorted(slide)) >= 1
            THEN slide[BrandPicsSorted(slide)[1]].id ELSE 0
       [] role = "brand_chart_image2" ->
            IF Len(BrandPicsSorted(slide)) >= 2
            THEN slide[BrandPicsSorted(slide)[2]].id ELSE 0
       [] OTHER -> BasicRef(slide, role)]

(***************************************************************************)
(* Field binder: text, chart label and image replacement                   *)
(***************************************************************************)
\* the paragraphs of a shape after replace_text
ReplaceParas(paras, new_text) ==
  LET k == FirstWithRuns(paras, 1)
  IN IF k = 0 THEN paras
     ELSE [paras EXCEPT ![k].runs = [r \in 1..Len(@) |->
            IF r = 1 THEN Run(new_text, @[r].sz) ELSE Run(EmptyText, @[r].sz)]]

\* replace_text
ReplaceText(shape, new_text) ==
  IF shape.kind # "text" THEN shape
  ELSE [shape EXCEPT !.paras = ReplaceParas(@, new_text)]

\* val_str of replace_chart_label_runs: value is a number, or -1 for ""
ValStr(value) == IF value < 0 THEN EmptyText ELSE FmtInt(value)

\* text.split("/")
RECURSIVE Split(_)
Split(text) ==
  IF \A k \in 1..Len(text) : text[k] # "/" THEN <<text>>
  ELSE LET k == CHOOSE i \in 1..Len(text) :
                  text[i] = "/" /\ \A j \in 1..(i - 1) : text[j] # "/"
       IN <<SubSeq(text, 1, k - 1)>> \o Split(SubSeq(text, k + 1, Len(text)))

\* "/".join(parts)
RECURSIVE Join(_)
Join(parts) ==
  IF parts = << >> THEN EmptyText
  ELSE IF Len(parts) = 1 THEN parts[1]
  ELSE parts[1] \o <<"/">> \o Join(Tail(parts))

\* the right-hand side of line 167
YearMonth(period_month) ==
  IF \E k \in 1..Len(period_month) : period_month[k] = "/"
  THEN Split(period_month)
  ELSE <<<<"y", "y", "y", "y">>, <<"m", "m">>>>

\* line 167 unpacks into two names: ValueError unless there are two parts
LabelRaises(shape, period_month) ==
  /\ shape.kind = "text"
  /\ Len(shape.paras[1].runs) >= 6
  /\ Len(YearMonth(period_month)) # 2

\* ReplaceChartLabelRuns that returns at fewer than 5 runs
ReplaceChartLabelRuns_FiveRuns(shape, period_month, value, unit) ==
  IF shape.kind # "text" THEN shape
  ELSE IF Len(shape.paras[1].runs) < 5 THEN shape
  ELSE IF LabelRaises(shape, period_month) THEN shape
  ELSE [shape EXCEPT !.paras[1].runs =
         [r \in 1..Len(@) |->
            CASE r = 3 -> Run(YearMonth(period_month)[1], @[r].sz)
              [] r = 4 -> Run(<<"/">> \o YearMonth(period_month)[2], @[r].sz)
              [] r = 6 -> Run(<<":">> \o ValStr(value) \o unit \o <<")">>, @[r].sz)
              [] OTHER -> @[r]]]

\* replace_chart_label_runs: the shape afterwards (as it was, when line 167
\* raises)
ReplaceChartLabelRuns(shape, period_month, value, unit) ==
  IF shape.kind # "text" THEN shape
  ELSE IF Len(shape.paras[1].runs) < 6 THEN shape
  ELSE IF LabelRaises(shape, period_month) THEN shape
  ELSE [shape EXCEPT !.paras[1].runs =
         [r \in 1..Len(@) |->
            CASE r = 3 -> Run(YearMonth(period_month)[1], @[r].sz)
              [] r = 4 -> Run(<<"/">> \o YearMonth(period_month)[2], @[r].sz)
              [] r = 6 -> Run(<<":">> \o ValStr(value) \o unit \o <<")">>, @[r].sz)
              [] OTHER -> @[r]]]

\* the slide with the shape of this id changed by op
RemoveShape(slide, id) == SelectSeq(slide, LAMBDA sh : sh.id # id)

\* an image: where its pixels come from (the template or a generated chart
\* of an entity), the data the chart was drawn from and the image part
\* holding it
Img(src, ent, data, part) == [src |-> src, ent |-> ent, data |-> data, part |-> part]
NoImg == Img("none", 0, << >>, 0)

\* replace_image_by_ref: remove the shape, add a picture at its place
ReplaceImageByRef(slide, id, newid, img) ==
  LET sh == ShapeById(slide, id)
  IN Append(RemoveShape(slide, id),
            Shape(newid, "pic", {}, FALSE, sh.top, sh.left, sh.width, sh.height,
                  NoTbl, << >>, img))

(***************************************************************************)
(* Input data.  An entity is a client name, a string; the model numbers    *)
(* the names.  A series is a sequence of records [week, val]; a brand      *)
(* breakdown a sequence of rows.                                           *)
(***************************************************************************)
ClientNames == {1, 2, 3}

NameText(e) == <<"c">> \o Digits(e)

\* hash(project_id) of line 516: a map from the unbounded set of strings to
\* the values of a machine word, hence not one-to-one.  HashSpace stands
\* for the number of hash values, scaled down with the set of names.
HashSpace == 2
PyHash(n) == n % HashSpace

BrandName(k) ==
  CASE k = 2 -> Str(<<"W", "W", "W", "W">>)
    [] k = 3 -> Str(<<"W", "W", "W", "W", "W", "W">>)
    [] k = 4 -> Str(<<"7">>)
    [] k = 5 -> NaN
    [] OTHER -> Str(<<"B">> \o Digits(k))

BrandRow(k) ==
  [brand_name |-> BrandName(k),
   total_price |-> Num(1500000 - 1000 * k),
   total_count |-> Num(k),
   unique_user_count |-> IF k = 2 THEN NaN ELSE Num(10 + k)]

BrandDf(n) == [k \in 1..n |-> BrandRow(k)]

Series(n) == [k \in 1..n |-> [week |-> k, val |-> 600 * k]]

RECURSIVE SeriesSum(_)
SeriesSum(df) == IF df = << >> THEN 0 ELSE Head(df).val + SeriesSum(Tail(df))

\* the rows of one company in the three CSV files, in file order (the brand
\* rows by ascending price); lengths 0 stand for "no rows for the company"
Profile(l, p, b) ==
  [login |-> Series(l), purchase |-> Series(p),
   brand |-> [k \in 1..b |-> BrandRow(b + 1 - k)]]
Profiles == {Profile(0, 0, 0), Profile(2, 1, 2),
             Profile(2, 0, TABLE_MAX_ROWS + MaxExtraRows), Profile(0, 1, 0)}

\* lines 606-608: the distinct dates of all rows of the login file
AllWeeks(rows_of) ==
  UNION {{rows_of[c].login[k].week : k \in 1..Len(rows_of[c].login)} : c \in DOMAIN rows_of}

\* lines 609-619: the weeks of all_weeks a company's purchase rows lack are
\* added with value 0, and the rows sorted by date
FillWeeks(pdf, all_weeks) ==
  LET existing == {pdf[k].week : k \in 1..Len(pdf)}
      fill == {[week |-> w, val |-> 0] : w \in all_weeks \ existing}
      RECURSIVE SeqOf(_)
      SeqOf(S) == IF S = {} THEN << >>
                  ELSE LET x == CHOOSE y \in S : \A z \in S : y.week <= z.week
                       IN <<x>> \o SeqOf(S \ {x})
      both == pdf \o SeqOf(fill)
  IN IF pdf = << >> \/ fill = {} THEN pdf
     ELSE SortRows(both, [k \in 1..Len(both) |-> both[k].week])

\* lines 598-627: what main hands to generate_single_report for a company
LoadedData(rows_of, company) ==
  [login |-> rows_of[company].login,
   purchase |-> FillWeeks(rows_of[company].purchase, AllWeeks(rows_of)),
   brand |-> SortRows(rows_of[company].brand,
                      [k \in 1..Len(rows_of[company].brand) |->
                         0 - rows_of[company].brand[k].total_price.n])]

(***************************************************************************)
(* generate_single_report                                                  *)
(***************************************************************************)
\* Series.sum() of a column of these rows: NaN is skipped
RECURSIVE SumCol(_, _)
SumCol(rows, col) ==
  IF rows = << >> THEN 0
  ELSE (IF DfGet(Head(rows), col).t = "num" THEN DfGet(Head(rows), col).n ELSE 0)
       + SumCol(Tail(rows), col)

DonutRow(label, count, price) == [label |-> label, count |-> count, price |-> price]

\* DonutSeries that keeps the first BRAND_DONUT_MAX rows only
DonutSeries_NoOther(brand_df) ==
  [k \in 1..(IF Len(brand_df) < BRAND_DONUT_MAX THEN Len(brand_df) ELSE BRAND_DONUT_MAX) |->
     DonutRow(brand_df[k].brand_name, brand_df[k].total_count, brand_df[k].total_price)]

\* lines 488-496: donut_df, the rows the donut chart is drawn from
DonutSeries(brand_df) ==
  LET n == Len(brand_df)
      head == [k \in 1..(IF n < BRAND_DONUT_MAX THEN n ELSE BRAND_DONUT_MAX) |->
                 DonutRow(brand_df[k].brand_name, brand_df[k].total_count,
                          brand_df[k].total_price)]
      remaining == SubSeq(brand_df, BRAND_DONUT_MAX + 1, n)
  IN IF Len(remaining) > 0
     THEN Append(head, DonutRow(Str(<<"jp_other">>),
                                Num(SumCol(remaining, "total_count")),
                                Num(SumCol(remaining, "total_price"))))
     ELSE head

LoginPicId == 101
PurchasePicId == 102
BrandPicId == 103

\* roles the binder subscripts unconditionally (refs[...] raises KeyError)
BoundRoles == {"title", "period", "reg_users", "mau", "distribution",
               "login_chart_label", "purchase_chart_label", "table"}

TitleText(project_name) == NameText(project_name) \o <<" ", "m_title">>

\* lines 423-445: texts, chart labels and table
BindTexts(slide, refs, project_name, summary_row, data) ==
  LET fmt(v) == FmtInt(v)
      login_total == IF Len(data.login) > 0 THEN SeriesSum(data.login) ELSE -1
      purchase_total == IF Len(data.purchase) > 0 THEN SeriesSum(data.purchase) ELSE -1
      period_start == Digits(summary_row.year) \o <<"/">>
                        \o Digits(summary_row.month) \o <<"/", "1">>
      parts == Split(period_start)
      pm == Join(SubSeq(parts, 1, IF Len(parts) < 2 THEN Len(parts) ELSE 2))
  IN [k \in 1..Len(slide) |->
       LET sh == slide[k]
       IN CASE sh.id = refs["title"] -> ReplaceText(sh, TitleText(project_name))
            [] sh.id = refs["period"] -> ReplaceText(sh, <<"m_kikan", ":">> \o pm)
            [] sh.id = refs["reg_users"] -> ReplaceText(sh, <<"m_reg", ":">> \o fmt(summary_row.reg_users) \o <<"nin">>)
            [] sh.id = refs["mau"] -> ReplaceText(sh, <<"MAU", ":">> \o fmt(summary_row.mau) \o <<"nin">>)
            [] sh.id = refs["distribution"] -> ReplaceText(sh, <<"m_ryutsu", ":">> \o fmt(summary_row.dist) \o <<"yen">>)
            [] sh.id = refs["login_chart_label"] -> ReplaceChartLabelRuns(sh, pm, login_total, <<"nin">>)
            [] sh.id = refs["purchase_chart_label"] -> ReplaceChartLabelRuns(sh, pm, purchase_total, <<"ken">>)
            [] sh.id = refs["table"] -> FillTableByRef(sh, data.brand)
            [] OTHER -> sh]

\* ImageStep whose else branches (lines 471, 484, 510) do nothing
ImageStep_KeepsPlaceholder(st, ref, has_data, newid, chart, img) ==
  IF ~st.ok THEN st
  ELSE IF has_data
  THEN IF ref # 0 /\ HasShape(st.slide, ref)
       THEN [ok |-> TRUE, slide |-> ReplaceImageByRef(st.slide, ref, newid, img),
             charts |-> st.charts \cup {chart}]
       ELSE [ok |-> FALSE, slide |-> st.slide, charts |-> st.charts \cup {chart}]
  ELSE st

\* one image region (lines 460-510): with data the chart file is written and
\* the picture replaced, which raises when the reference is None or already
\* detached; without data _remove_shape removes it and swallows any error.
\* st is [ok, slide, charts].
ImageStep(st, ref, has_data, newid, chart, img) ==
  IF ~st.ok THEN st
  ELSE IF has_data
  THEN IF ref # 0 /\ HasShape(st.slide, ref)
       THEN [ok |-> TRUE, slide |-> ReplaceImageByRef(st.slide, ref, newid, img),
             charts |-> st.charts \cup {chart}]
       ELSE [ok |-> FALSE, slide |-> st.slide, charts |-> st.charts \cup {chart}]
  ELSE [ok |-> TRUE, slide |-> RemoveShape(st.slide, ref), charts |-> st.charts]

\* The singleton sets below only name intermediate values: S1 is the state
\* after the login region, S2 after the purchase region, S3 after the brand
\* region, and line 513 removes the duplicate brand picture.
GenerateWithRefs(template, refs, project_id, summary_row, data) ==
  IF \/ \E r \in BoundRoles : refs[r] = 0
     \/ FillRaises(ShapeById(template, refs["table"]))
  THEN [ok |-> FALSE, slide |-> template, charts |-> {}]
  ELSE
    LET S0 == {[ok |-> TRUE, charts |-> {},
                slide |-> BindTexts(template, refs, project_id, summary_row, data)]}
        S1 == {ImageStep(st, refs["login_chart_image"], Len(data.login) > 0,
                         LoginPicId, <<project_id, "login">>,
                         Img("login", project_id, data.login, LoginPicId)) : st \in S0}
        S2 == {ImageStep(st, refs["purchase_chart_image"], Len(data.purchase) > 0,
                         PurchasePicId, <<project_id, "purchase">>,
                         Img("purchase", project_id, data.purchase, PurchasePicId)) : st \in S1}
        S3 == {ImageStep(st, refs["brand_chart_image1"], Len(data.brand) > 0,
                         BrandPicId, <<project_id, "brand">>,
                         Img("brand", project_id, DonutSeries(data.brand), BrandPicId)) : st \in S2}
    IN CHOOSE r \in {IF ~st.ok THEN st
                     ELSE [st EXCEPT !.slide = RemoveShape(@, refs["brand_chart_image2"])]
                     : st \in S3} : TRUE

GenerateSingleReport(template, project_id, summary_row, data) ==
  CHOOSE r \in {GenerateWithRefs(template, refs, project_id, summary_row, data)
                 : refs \in {DetectShapes(template)}} : TRUE

(***************************************************************************)
(* Templates.  The template file is not part of the sources; these are     *)
(* slides with the labels, pictures and table that _detect_shapes and the  *)
(* binder look for.  Every cell holds one paragraph (validate.py, line     *)
(* 126, rejects any other deck).                                           *)
(***************************************************************************)
TextShape(id, marks, top, left, runs) ==
  Shape(id, "text", marks, FALSE, top, left, 4000, 300, NoTbl,
        <<Para([r \in 1..Len(runs) |-> Run(runs[r], NoFont)], FALSE)>>, NoImg)

PicShape(id, top, left, width) ==
  Shape(id, "pic", {}, FALSE, top, left, width, 1400, NoTbl, << >>,
        Img("template", 0, << >>, id))

LabelRuns(mark) == <<<<mark>>, <<"(">>, <<"y", "y", "y", "y">>, <<"/", "m", "m">>,
                     <<"n", "o">>, <<":", " ", ")">>>>

DummyCell == <<Para(<<Run(<<"x", "x">>, NoFont)>>, FALSE)>>
TwoRunCell == <<Para(<<Run(<<"x">>, NoFont), Run(<<"y">>, NoFont)>>, FALSE)>>
NoRunCell == <<Para(<< >>, FALSE)>>
HeaderCell == <<Para(<<Run(<<"h">>, NoFont)>>, FALSE)>>

TableA ==
  [col_widths |-> <<600000, 500000, 500000, 500000>>,
   row_heights |-> [r \in 1..(TABLE_MAX_ROWS + 1) |-> 300000],
   cells |-> [r \in 1..(TABLE_MAX_ROWS + 1) |-> [j \in 1..4 |->
                IF r = 1 THEN HeaderCell ELSE DummyCell]]]

\* a wider table: a spare row and a spare column, cells of two runs and
\* cells without runs
TableB ==
  [col_widths |-> <<700000, 500000, 500000, 500000, 300000>>,
   row_heights |-> [r \in 1..(TABLE_MAX_ROWS + 2) |-> IF r = 1 THEN 350000 ELSE 300000],
   cells |-> [r \in 1..(TABLE_MAX_ROWS + 2) |-> [j \in 1..5 |->
                IF r = 1 THEN HeaderCell
                ELSE IF j = 1 THEN TwoRunCell
                ELSE IF j = 5 /\ r % 2 = 0 THEN NoRunCell
                ELSE DummyCell]]]

TableShape(id, tbl) ==
  Shape(id, "table", {}, FALSE, 700, 6000, 2100000, 3300000, tbl, << >>, NoImg)

Template1 ==
  <<TextShape(1, {"m_title"}, 100, 300, <<<<"n", "a", "m", "e">>, <<"m_title">>>>),
    TextShape(2, {"m_kikan", "yyyy"}, 200, 300, <<<<"m_kikan", "yyyy">>>>),
    TextShape(3, {"m_reg"}, 300, 300, <<<<"m_reg", "x">>>>),
    TextShape(4, {"MAU"}, 400, 300, <<<<"MAU", "x">>>>),
    TextShape(5, {"m_ryutsu", "m_soukounyu"}, 500, 300, <<<<"m_ryutsu", "x">>>>),
    TextShape(6, {"m_login_trend"}, 600, 300, LabelRuns("m_login_trend")),
    PicShape(7, 700, 300, 5000),
    TextShape(8, {"m_purchase_trend"}, 2200, 300, LabelRuns("m_purchase_trend")),
    PicShape(9, 2300, 300, 5000),
    TextShape(10, {"m_top", "TOP10"}, 600, 6000, <<<<"m_top">>>>),
    TableShape(11, TableA),
    TextShape(12, {"m_brand"}, 3800, 300, <<<<"m_brand">>>>),
    PicShape(13, 3900, 300, 6000),
    PicShape(14, 3900, 300, 3000)>>

\* Template1 after the login picture was deleted by hand
Template2 == RemoveShape(Template1, 7)

\* Template1 with the narrower brand picture first in shape order
NarrowFirst == [Template1 EXCEPT ![13] = Template1[14], ![14] = Template1[13]]

\* Template1 with two brand pictures of one width
EqualWidths == [Template1 EXCEPT ![14].width = Template1[13].width]

\* a hand-edited template: table first, the wider table, a logo above all
\* labels, one brand picture
Template3 ==
  <<TableShape(11, TableB), PicShape(15, 50, 9000, 800)>>
  \o RemoveShape(RemoveShape(Template1, 11), 14)

Templates == {Template1, Template2, Template3}

(***************************************************************************)
(* validate.py                                                             *)
(***************************************************************************)
TableIdx(slide) == {k \in 1..Len(slide) : slide[k].kind = "table"}

\* _get_table_metrics of a slide that has a table: those of its first table
GetTableMetrics(slide) ==
  LET sh == slide[SetMin(TableIdx(slide))]
  IN [top |-> sh.top, left |-> sh.left, width |-> sh.width, height |-> sh.height,
      n_rows |-> Len(sh.tbl.cells),
      n_cols |-> Len(sh.tbl.col_widths),
      row_heights |-> sh.tbl.row_heights,
      col_widths |-> sh.tbl.col_widths,
      para_counts |-> [r \in 1..Len(sh.tbl.cells) |->
                        [j \in 1..Len(sh.tbl.cells[r]) |-> Len(sh.tbl.cells[r][j])]]]

Issue(slide_num, severity, kind, i, j) ==
  [slide |-> slide_num, severity |-> severity, kind |-> kind, i |-> i, j |-> j]

Min2(a, b) == IF a < b THEN a ELSE b

\* the issues of the loop "for i, (t, g) in enumerate(zip(ts, gs))", from i on
RECURSIVE ZipIssues(_, _, _, _, _, _)
ZipIssues(ts, gs, i, slide_num, severity, kind) ==
  IF i > Min2(Len(ts), Len(gs)) THEN << >>
  ELSE (IF ts[i] # gs[i] THEN <<Issue(slide_num, severity, kind, i - 1, 0)>> ELSE << >>)
       \o ZipIssues(ts, gs, i + 1, slide_num, severity, kind)

\* lines 124-130: the cells of more than one paragraph, in row-major order
RECURSIVE ParaIssues(_, _, _, _)
ParaIssues(pc_, r, j, slide_num) ==
  IF r > Len(pc_) THEN << >>
  ELSE IF j > Len(pc_[r]) THEN ParaIssues(pc_, r + 1, 1, slide_num)
  ELSE (IF pc_[r][j] > 1 THEN <<Issue(slide_num, "error", "paragraphs", r - 1, j - 1)>>
        ELSE << >>)
       \o ParaIssues(pc_, r, j + 1, slide_num)

\* the body of the loop of validate (lines 72-130) for one slide
SlideIssues(slide, slide_num, tm) ==
  IF TableIdx(slide) = {} THEN <<Issue(slide_num, "error", "no_table", 0, 0)>>
  ELSE LET gms == {GetTableMetrics(slide)}
       IN CHOOSE r \in
          {(IF gm.n_rows # tm.n_rows
            THEN <<Issue(slide_num, "error", "rows", 0, 0)>> ELSE << >>)
           \o (IF gm.n_cols # tm.n_cols
               THEN <<Issue(slide_num, "error", "cols", 0, 0)>> ELSE << >>)
           \o ZipIssues(tm.row_heights, gm.row_heights, 1, slide_num, "warning", "row_height")
           \o ZipIssues(tm.col_widths, gm.col_widths, 1, slide_num, "error", "col_width")
           \o (IF gm.top # tm.top \/ gm.left # tm.left
               THEN <<Issue(slide_num, "warning", "position", 0, 0)>> ELSE << >>)
           \o (IF gm.width # tm.width \/ gm.height # tm.height
               THEN <<Issue(slide_num, "error", "size", 0, 0)>> ELSE << >>)
           \o ParaIssues(gm.para_counts, 1, 1, slide_num) : gm \in gms} : TRUE

RECURSIVE ValidateFrom(_, _, _)
ValidateFrom(doc, k, tm) ==
  IF k > Len(doc) THEN << >>
  ELSE SlideIssues(doc[k], k, tm) \o ValidateFrom(doc, k + 1, tm)

\* validate that returns at the first issue it finds
Validate_FirstIssueOnly(doc, tmpl) ==
  LET all == ValidateFrom(doc, 1, GetTableMetrics(tmpl))
  IN IF all = << >> THEN << >> ELSE <<all[1]>>

\* validate(pptx_path): doc is the deck at that path, tmpl the template slide
Validate(doc, tmpl) ==
  CHOOSE r \in {ValidateFrom(doc, 1, tm) : tm \in {GetTableMetrics(tmpl)}} : TRUE

HasError(issues) == \E k \in 1..Len(issues) : issues[k].severity = "error"

\* line 17 of validate.py imports these names from config, and config.py
\* defines those
ImportedNames == {"TEMPLATE_PATH", "SHAPES"}
ConfigNames == {"SCRIPT_DIR", "TEMPLATE_PATH", "TASKS_DIR", "TABLE_COLUMNS",
                "TABLE_MAX_ROWS", "CSV_PATTERNS", "COLUMN_MAP", "BRAND_DONUT_MAX"}
ImportOK == ImportedNames \subseteq ConfigNames

\* the exit code of "python validate.py <args>": an ImportError ends the
\* process with code 1 before main is entered (lines 135-164 otherwise)
ValidatorExit(has_arg, file_exists, doc, tmpl) ==
  IF ~ImportOK THEN 1
  ELSE IF ~has_arg THEN 1
  ELSE IF ~file_exists THEN 1
  ELSE IF Validate(doc, tmpl) = << >> THEN 0
  ELSE IF HasError(Validate(doc, tmpl)) THEN 1
  ELSE 0

(***************************************************************************)
(* State.  Independent runs are modelled: the generator (main of           *)
(* generate.py), a single table fill, the validator, runs that create      *)
(* their task directory on the same day, and single calls of helpers.      *)
(***************************************************************************)
VARIABLES
  fshape,   \* fill: the shape handed to fill_table_by_ref
  fdf,      \* fill: the data frame handed to it
  fbefore,  \* fill: the shape as it was before the call
  fdone,    \* fill: the call has returned
  vdoc,     \* validator: the slides of the deck under validation
  vargs,    \* validator: [has_arg, file_exists], the command line
  vissues,  \* validator: the list returned by validate
  vpc,      \* validator: "start", "validated" or "exited"
  vexit,    \* validator: exit code of the command, -1 before it ends
  pc,              \* generator: position in main
  exitCode,        \* generator: exit code of the process, -1 while it runs
  exitAt,          \* generator: the position at which the process ended
  templateExists,  \* TEMPLATE_PATH.exists()
  template,        \* the slide of the template document
  argv,            \* generator: [mode, files, allExist], the command line
  taskDir,         \* generator: the task directory was created
  taskInput,       \* generator: files in the task's input directory
  csv_files,       \* generator: role -> detected file
  missing,         \* generator: the roles reported as missing
  inputsRead,      \* generator: the CSV files were read
  client_names,    \* generator: entities in processing order
  summary_by_client, \* generator: entity -> summary row
  dataOf,          \* generator: entity -> the login, purchase and brand rows
                   \* handed to generate_single_report
  csv_rows,        \* generator: company -> its rows in the three CSV files
  generated,       \* generator: history of generate_single_report calls
  tmpDocs,         \* generator: documents in the temporary directory, by path
  tmpCharts,       \* generator: chart images in the temporary directory
  temp_pptx_paths, \* generator: the paths returned by generate_single_report
  base_prs,        \* generator: the slides of the merged presentation
  copy,            \* generator: [i, j, slide, file], progress of _copy_slide
  sysTmp,          \* generator: temporary image files of _copy_slide on disk
  tmpMade,         \* generator: every temporary file the run has created
  outputFile,      \* generator: the slides of the saved output, << >> if none
  tasks_dir,       \* TASKS_DIR: the task directories that exist (1 is the
                   \* directory named by the date, n >= 2 is date_n)
  mk,              \* per run: position and locals of _create_task_dir
  call,            \* a helper call: [fn, ...] the function and its arguments
  ret              \* the helper call: [done, raised, val]

fillVars == <<fshape, fdf, fbefore, fdone>>
valVars == <<vdoc, vargs, vissues, vpc, vexit>>
genVars == <<pc, exitCode, exitAt, templateExists, template, argv, taskDir, taskInput,
             csv_files, missing, inputsRead, client_names, summary_by_client,
             dataOf, csv_rows, generated, tmpDocs, tmpCharts, temp_pptx_paths, base_prs,
             copy, sysTmp, tmpMade, outputFile>>
dirVars == <<tasks_dir, mk>>
callVars == <<call, ret>>
vars == <<fillVars, valVars, genVars, dirVars, callVars>>

\* a breakdown read from a CSV file that has no unique_user_count column
BrandDfNoUsers(n) == [k \in 1..n |-> [BrandRow(k) EXCEPT !.unique_user_count = Absent]]

FillShapes == {TableShape(11, TableA), TableShape(11, TableB),
               TextShape(10, {"m_top"}, 600, 6000, <<<<"m_top">>>>)}
FillFrames == {BrandDf(n) : n \in 0..(TABLE_MAX_ROWS + MaxExtraRows)}
              \cup {BrandDfNoUsers(n) : n \in 1..(TABLE_MAX_ROWS + MaxExtraRows)}

FillInit ==
  /\ fshape \in FillShapes
  /\ fdf \in FillFrames
  /\ fbefore = fshape
  /\ fdone = FALSE

\* one call of fill_table_by_ref
FillStep ==
  /\ ~fdone
  /\ ~FillRaises(fshape)
  /\ fshape' = FillTableByRef(fshape, fdf)
  /\ fdone' = TRUE
  /\ UNCHANGED <<fdf, fbefore>>

(***************************************************************************)
(* csv_utils.detect_csv_files.  A file name is the set of keyword tokens   *)
(* it contains and its extension; "LOGIN" and "SUMMARY" are upper-case     *)
(* spellings that match only through name_lower.                           *)
(***************************************************************************)
File(toks, ext) == [toks |-> toks, ext |-> ext]
NoFile == File({}, "none")

Lower(tok) == CASE tok = "LOGIN" -> "login"
                [] tok = "SUMMARY" -> "summary"
                [] OTHER -> tok

\* any(kw in f.name or kw in name_lower for kw in keywords)
Matches(f, keywords) ==
  \E kw \in keywords : kw \in f.toks \/ kw \in {Lower(t) : t \in f.toks}

\* input_dir.glob("*.csv")
CsvOf(files) == {f \in files : f.ext = "csv"}

\* order: the csv files of the directory in the order glob yields them
DetectCsvFiles(order, patterns) ==
  [key \in DOMAIN patterns |->
     LET S == {k \in 1..Len(order) : Matches(order[k], patterns[key])}
     IN IF S = {} THEN NoFile ELSE order[SetMin(S)]]

\* MissingRoles that does not look at the summary role
MissingRoles_NoSummary(found) == {k \in DOMAIN found \ {"summary"} : found[k] = NoFile}

\* line 575 of generate.py: the roles without a file
MissingRoles(found) == {k \in DOMAIN found : found[k] = NoFile}

Orders(S) == {o \in [1..Cardinality(S) -> S] : \A a, b \in DOMAIN o : a # b => o[a] # o[b]}

FLogin == File({"login"}, "csv")
FPurchase == File({"purchase"}, "csv")
FSales == File({"jp_sales"}, "csv")
FSummary == File({"SUMMARY"}, "csv")
FLoginPurchase == File({"jp_login", "jp_purchase"}, "csv")
FSummaryTxt == File({"summary"}, "txt")
\* file1.csv .. file4.csv, the names of the usage text (lines 15-16)
FPlain == {File({"file1"}, "csv"), File({"file2"}, "csv"),
           File({"file3"}, "csv"), File({"file4"}, "csv")}

\* the command lines of the runs: explicit files (one of which may not
\* exist), an input directory, or neither
Argv(mode, files, allExist) == [mode |-> mode, files |-> files, allExist |-> allExist]
Argvs == {Argv("files", {FLogin, FPurchase, FSales, FSummary}, TRUE),
          Argv("files", {FLogin, FPurchase, FSales, FSummary}, FALSE),
          Argv("files", {FLogin, FPurchase, FSales, FSummaryTxt}, TRUE),
          Argv("files", FPlain, TRUE),
          Argv("dir", {FLoginPurchase, FSales, FSummary}, TRUE),
          Argv("dir", {FLogin, FPurchase, FSales, FSummaryTxt}, TRUE),
          Argv("dir", {FLogin, FSummary}, TRUE),
          Argv("dir", {}, TRUE),
          Argv("none", {}, TRUE)}

(***************************************************************************)
(* main of generate.py                                                     *)
(***************************************************************************)
NoCopy == [i |-> 0, j |-> 0, slide |-> << >>, file |-> 0]

SummaryRow(name, i) ==
  [client_name |-> name, reg_users |-> 1000 * i + 5, mau |-> 10 * i,
   dist |-> 2500000 + i, year |-> 2026, month |-> 2]

SummaryFrames ==
  UNION {[1..n -> ClientNames] : n \in 0..MaxSummaryRows}

\* list(summary_by_client.keys()): the names in order of first appearance
RECURSIVE FirstSeen(_, _)
FirstSeen(names, k) ==
  IF k > Len(names) THEN << >>
  ELSE IF \E m \in 1..(k - 1) : names[m] = names[k] THEN FirstSeen(names, k + 1)
  ELSE <<names[k]>> \o FirstSeen(names, k + 1)

\* summary_by_client[name]: the last row of that name
LastRow(names, name) ==
  SummaryRow(name, SetMax({k \in 1..Len(names) : names[k] = name}))

Range(f) == {f[x] : x \in DOMAIN f}

GenInit ==
  /\ pc = "start"
  /\ exitCode = -1
  /\ exitAt = "none"
  /\ templateExists \in BOOLEAN
  /\ template \in Templates
  /\ argv \in Argvs
  /\ taskDir = FALSE
  /\ taskInput = {}
  /\ csv_files = [key \in Roles |-> NoFile]
  /\ missing = {}
  /\ inputsRead = FALSE
  /\ client_names = << >>
  /\ summary_by_client = << >>
  /\ dataOf = << >>
  /\ csv_rows = << >>
  /\ generated = << >>
  /\ tmpDocs = << >>
  /\ tmpCharts = {}
  /\ temp_pptx_paths = << >>
  /\ base_prs = << >>
  /\ copy = NoCopy
  /\ sysTmp = {}
  /\ tmpMade = {}
  /\ outputFile = << >>

\* sys.exit(code) or an uncaught exception; leaving the with block of
\* line 634 removes the temporary directory
Exit(code) ==
  /\ pc' = "exited"
  /\ exitCode' = code
  /\ exitAt' = pc
  /\ tmpDocs' = << >>
  /\ tmpCharts' = {}

\* CheckTemplate with _create_task_dir called before the template check
CheckTemplate_DirFirst ==
  /\ pc = "start"
  /\ taskDir' = TRUE
  /\ IF ~templateExists
     THEN Exit(1)
     ELSE /\ pc' = "copy"
          /\ UNCHANGED <<exitCode, exitAt, tmpDocs, tmpCharts>>
  /\ UNCHANGED <<templateExists, template, argv, taskInput, csv_files, missing,
                 inputsRead, client_names, summary_by_client, dataOf, csv_rows, generated,
                 temp_pptx_paths, base_prs, copy, sysTmp, tmpMade, outputFile>>

\* lines 544-552: the template check and _create_task_dir
CheckTemplate ==
  /\ pc = "start"
  /\ IF ~templateExists
     THEN Exit(1) /\ UNCHANGED taskDir
     ELSE /\ taskDir' = TRUE
          /\ pc' = "copy"
          /\ UNCHANGED <<exitCode, exitAt, tmpDocs, tmpCharts>>
  /\ UNCHANGED <<templateExists, template, argv, taskInput, csv_files, missing,
                 inputsRead, client_names, summary_by_client, dataOf, csv_rows, generated,
                 temp_pptx_paths, base_prs, copy, sysTmp, tmpMade, outputFile>>

\* lines 554-571: copy the inputs into the task's input directory; in the
\* "files" mode a path that does not exist stops the run after the files
\* before it were copied
CopyInputs ==
  /\ pc = "copy"
  /\ CASE argv.mode = "files" /\ argv.allExist ->
            /\ taskInput' = argv.files
            /\ pc' = "detect"
            /\ UNCHANGED <<exitCode, exitAt, tmpDocs, tmpCharts>>
       [] argv.mode = "files" /\ ~argv.allExist ->
            /\ \E done \in SUBSET argv.files :
                 /\ done # argv.files
                 /\ taskInput' = done
            /\ Exit(1)
       [] argv.mode = "dir" ->
            /\ taskInput' = CsvOf(argv.files)
            /\ pc' = "detect"
            /\ UNCHANGED <<exitCode, exitAt, tmpDocs, tmpCharts>>
       [] OTHER ->
            /\ Exit(1)
            /\ UNCHANGED taskInput
  /\ UNCHANGED <<templateExists, template, argv, taskDir, csv_files, missing,
                 inputsRead, client_names, summary_by_client, dataOf, csv_rows, generated,
                 temp_pptx_paths, base_prs, copy, sysTmp, tmpMade, outputFile>>

\* lines 573-582: detect_csv_files and the check for missing roles
DetectInputs ==
  /\ pc = "detect"
  /\ \E order \in Orders(CsvOf(taskInput)) :
       LET found == DetectCsvFiles(order, CSV_PATTERNS)
           miss == MissingRoles(found)
       IN /\ csv_files' = found
          /\ missing' = miss
          /\ IF miss # {}
             THEN Exit(1)
             ELSE /\ pc' = "load"
                  /\ UNCHANGED <<exitCode, exitAt, tmpDocs, tmpCharts>>
  /\ UNCHANGED <<templateExists, template, argv, taskDir, taskInput,
                 inputsRead, client_names, summary_by_client, dataOf, csv_rows, generated,
                 temp_pptx_paths, base_prs, copy, sysTmp, tmpMade, outputFile>>

\* lines 588-630: read and group the four files
LoadInputs ==
  /\ pc = "load"
  /\ \E names \in SummaryFrames :
       \E rows_of \in [Range(names) -> Profiles] :
         /\ client_names' = FirstSeen(names, 1)
         /\ summary_by_client' = [n \in Range(names) |-> LastRow(names, n)]
         /\ csv_rows' = rows_of
         /\ dataOf' = [n \in Range(names) |-> LoadedData(rows_of, n)]
  /\ inputsRead' = TRUE
  /\ pc' = "generate"
  /\ UNCHANGED <<exitCode, exitAt, templateExists, template, argv, taskDir, taskInput,
                 csv_files, missing, generated, tmpDocs, tmpCharts,
                 temp_pptx_paths, base_prs, copy, sysTmp, tmpMade, outputFile>>

\* a temporary file: a chart image or a working document in the temporary
\* directory, or an image file of _copy_slide in the system's temp directory
TmpFile(kind, a, b) == [kind |-> kind, a |-> a, b |-> b]
ChartFiles(charts) == {TmpFile("chart", c[1], c[2]) : c \in charts}
DocFile(path) == TmpFile("doc", path, "pptx")
ImgFile(i, k) == TmpFile("img", 100 * i + k, "img")

\* prs.save(path): the file at this path now holds this slide
SaveDoc(docs, path, slide) ==
  [q \in DOMAIN docs \cup {path} |-> IF q = path THEN slide ELSE docs[q]]

\* GenerateEntity that catches the failure of an entity and goes on
GenerateEntity_SkipsFailed ==
  /\ pc = "generate"
  /\ Len(generated) < Len(client_names)
  /\ LET name == client_names[Len(generated) + 1]
         path == PyHash(name)
     IN \E res \in {GenerateSingleReport(template, name, summary_by_client[name], dataOf[name])} :
        /\ generated' = Append(generated, [name |-> name, ok |-> res.ok, slide |-> res.slide])
        /\ tmpCharts' = tmpCharts \cup ChartFiles(res.charts)
        /\ tmpMade' = tmpMade \cup ChartFiles(res.charts)
                         \cup (IF res.ok THEN {DocFile(path)} ELSE {})
        /\ tmpDocs' = IF res.ok THEN SaveDoc(tmpDocs, path, res.slide) ELSE tmpDocs
        /\ temp_pptx_paths' = IF res.ok THEN Append(temp_pptx_paths, path)
                               ELSE temp_pptx_paths
        /\ UNCHANGED <<pc, exitCode, exitAt>>
  /\ UNCHANGED <<templateExists, template, argv, taskDir, taskInput, csv_files,
                 missing, inputsRead, client_names, summary_by_client, dataOf, csv_rows,
                 base_prs, copy, sysTmp, outputFile>>

\* lines 638-662: one round of the loop over client_names
GenerateEntity ==
  /\ pc = "generate"
  /\ Len(generated) < Len(client_names)
  /\ LET name == client_names[Len(generated) + 1]
         path == PyHash(name)
     IN \E res \in {GenerateSingleReport(template, name, summary_by_client[name], dataOf[name])} :
        /\ generated' = Append(generated, [name |-> name, ok |-> res.ok, slide |-> res.slide])
        /\ IF res.ok
           THEN /\ tmpDocs' = SaveDoc(tmpDocs, path, res.slide)
                /\ tmpCharts' = tmpCharts \cup ChartFiles(res.charts)
                /\ temp_pptx_paths' = Append(temp_pptx_paths, path)
                /\ tmpMade' = tmpMade \cup ChartFiles(res.charts) \cup {DocFile(path)}
                /\ UNCHANGED <<pc, exitCode, exitAt>>
           ELSE /\ Exit(1)
                /\ tmpMade' = tmpMade \cup ChartFiles(res.charts)
                /\ UNCHANGED temp_pptx_paths
  /\ UNCHANGED <<templateExists, template, argv, taskDir, taskInput, csv_files,
                 missing, inputsRead, client_names, summary_by_client, dataOf, csv_rows,
                 base_prs, copy, sysTmp, outputFile>>

\* the element tags _copy_slide treats as shapes (line 48) and the tag of a
\* shape of the model
SHAPE_TAGS == {"sp", "pic", "graphicFrame", "grpSp", "cxnSp"}
TagOf(sh) == CASE sh.kind = "table" -> "graphicFrame"
               [] sh.kind = "pic" -> "pic"
               [] OTHER -> "sp"

\* the placeholders add_slide clones from the layout of the first slide
LayoutShapes ==
  <<TextShape(901, {}, 100, 300, <<<<"t">>>>), TextShape(902, {}, 900, 300, << >>)>>

\* AddSlide that leaves the placeholders of the layout on the new slide
AddSlide_KeepsPlaceholders(layout) == layout

\* lines 245-252: add_slide, then remove every shape that came with the layout
AddSlide(layout) == SelectSeq(layout, LAMBDA sh : TagOf(sh) \notin SHAPE_TAGS)

\* line 666: Presentation(temp_pptx_paths[0]), IndexError without entities
MergeBegin ==
  /\ pc = "generate"
  /\ Len(generated) = Len(client_names)
  /\ IF temp_pptx_paths = << >>
     THEN Exit(1) /\ UNCHANGED <<base_prs, copy>>
     ELSE /\ base_prs' = <<tmpDocs[temp_pptx_paths[1]]>>
          /\ copy' = [i |-> 2, j |-> 1, slide |-> AddSlide(LayoutShapes), file |-> 0]
          /\ pc' = "merge"
          /\ UNCHANGED <<exitCode, exitAt, tmpDocs, tmpCharts>>
  /\ UNCHANGED <<templateExists, template, argv, taskDir, taskInput, csv_files,
                 missing, inputsRead, client_names, summary_by_client, dataOf, csv_rows,
                 generated, temp_pptx_paths, sysTmp, tmpMade, outputFile>>

(***************************************************************************)
(* _copy_slide, one source slide at a time.  copy.slide is the new slide,  *)
(* copy.j the next source shape and copy.file the temporary image file     *)
(* that is open between lines 281 and 291.                                 *)
(***************************************************************************)
CopySrc == tmpDocs[temp_pptx_paths[copy.i]]

\* a picture whose blip has a relationship to an image part (lines 264-267)
HasBlob(sh) == sh.kind = "pic" /\ sh.img.part # 0

NextPics(src, j) == {k \in j..Len(src) : HasBlob(src[k])}

\* DeepCopies with a SHAPE_TAGS that lacks "graphicFrame"
DeepCopies_NoGraphicFrame(src, from, to) ==
  SelectSeq([k \in 1..(to - from + 1) |-> src[from + k - 1]],
            LAMBDA sh : sh.kind # "table")

\* copy.deepcopy of the shapes from..to (lines 295-296)
DeepCopies(src, from, to) == [k \in 1..(to - from + 1) |-> src[from + k - 1]]

\* the picture add_picture inserts for source picture sh (lines 273-289)
AddedPicture(sh, part) ==
  Shape(sh.id, "pic", {}, FALSE, sh.top, sh.left, sh.width, sh.height,
        NoTbl, << >>, [sh.img EXCEPT !.part = part])

\* lines 257-285: copy the shapes up to the next picture, then create the
\* temporary file and write the blob; a failed write leaves the file
CopyWriteBlob ==
  /\ pc = "merge"
  /\ copy.i <= Len(temp_pptx_paths)
  /\ copy.file = 0
  /\ NextPics(CopySrc, copy.j) # {}
  /\ LET k == SetMin(NextPics(CopySrc, copy.j))
         f == ImgFile(copy.i, k)
     IN /\ sysTmp' = sysTmp \cup {f}
        /\ tmpMade' = tmpMade \cup {f}
        /\ \/ /\ copy' = [copy EXCEPT !.j = k, !.file = f.a,
                              !.slide = @ \o DeepCopies(CopySrc, copy.j, k - 1)]
              /\ UNCHANGED <<pc, exitCode, exitAt, tmpDocs, tmpCharts>>
           \/ /\ Exit(1)
              /\ UNCHANGED copy
  /\ UNCHANGED <<templateExists, template, argv, taskDir, taskInput, csv_files,
                 missing, inputsRead, client_names, summary_by_client, dataOf, csv_rows,
                 generated, temp_pptx_paths, base_prs, outputFile>>

\* lines 286-292: add_picture, and unlink in the finally clause
CopyAddPicture ==
  /\ pc = "merge"
  /\ copy.file # 0
  /\ sysTmp' = sysTmp \ {TmpFile("img", copy.file, "img")}
  /\ \/ /\ copy' = [copy EXCEPT !.j = @ + 1, !.file = 0,
                        !.slide = Append(@, AddedPicture(CopySrc[copy.j], copy.file))]
        /\ UNCHANGED <<pc, exitCode, exitAt, tmpDocs, tmpCharts>>
     \/ /\ Exit(1)
        /\ UNCHANGED copy
  /\ UNCHANGED <<templateExists, template, argv, taskDir, taskInput, csv_files,
                 missing, inputsRead, client_names, summary_by_client, dataOf, csv_rows,
                 generated, temp_pptx_paths, base_prs, tmpMade, outputFile>>

\* lines 294-298: the remaining shapes; the new slide is complete
CopySlideEnd ==
  /\ pc = "merge"
  /\ copy.i <= Len(temp_pptx_paths)
  /\ copy.file = 0
  /\ NextPics(CopySrc, copy.j) = {}
  /\ base_prs' = Append(base_prs, copy.slide \o DeepCopies(CopySrc, copy.j, Len(CopySrc)))
  /\ copy' = [i |-> copy.i + 1, j |-> 1, slide |-> AddSlide(LayoutShapes), file |-> 0]
  /\ UNCHANGED <<pc, exitCode, exitAt, templateExists, template, argv, taskDir, taskInput,
                 csv_files, missing, inputsRead, client_names, summary_by_client,
                 dataOf, csv_rows, generated, tmpDocs, tmpCharts, temp_pptx_paths, sysTmp,
                 tmpMade, outputFile>>

\* lines 672-673 and the end of the with block
SaveOutput ==
  /\ pc = "merge"
  /\ copy.i > Len(temp_pptx_paths)
  /\ outputFile' = base_prs
  /\ tmpDocs' = << >>
  /\ tmpCharts' = {}
  /\ pc' = "open"
  /\ UNCHANGED <<exitCode, exitAt, templateExists, template, argv, taskDir, taskInput,
                 csv_files, missing, inputsRead, client_names, summary_by_client,
                 dataOf, csv_rows, generated, temp_pptx_paths, base_prs, copy, sysTmp,
                 tmpMade>>

\* line 680: subprocess.Popen(["open", ...]) raises where there is no such
\* command; otherwise main returns
OpenOutput ==
  /\ pc = "open"
  /\ \E code \in {0, 1} : Exit(code)
  /\ UNCHANGED <<templateExists, template, argv, taskDir, taskInput, csv_files,
                 missing, inputsRead, client_names, summary_by_client, dataOf, csv_rows,
                 generated, temp_pptx_paths, base_prs, copy, sysTmp, tmpMade,
                 outputFile>>

GenNext ==
  \/ CheckTemplate
  \/ CopyInputs
  \/ DetectInputs
  \/ LoadInputs
  \/ GenerateEntity
  \/ MergeBegin
  \/ CopyWriteBlob
  \/ CopyAddPicture
  \/ CopySlideEnd
  \/ SaveOutput
  \/ OpenOutput

FillIdle == fshape = NoTbl /\ fdf = << >> /\ fbefore = NoTbl /\ fdone = TRUE

GenIdle ==
  /\ pc = "idle"
  /\ exitCode = -1
  /\ exitAt = "none"
  /\ argv = Argv("none", {}, TRUE)
  /\ taskDir = FALSE
  /\ taskInput = {}
  /\ csv_files = [key \in Roles |-> NoFile]
  /\ missing = {}
  /\ inputsRead = FALSE
  /\ client_names = << >>
  /\ summary_by_client = << >>
  /\ dataOf = << >>
  /\ csv_rows = << >>
  /\ generated = << >>
  /\ tmpDocs = << >>
  /\ tmpCharts = {}
  /\ temp_pptx_paths = << >>
  /\ base_prs = << >>
  /\ copy = NoCopy
  /\ sysTmp = {}
  /\ tmpMade = {}
  /\ outputFile = << >>

(***************************************************************************)
(* The validator run on decks that differ from the template in chosen      *)
(* metrics of the table.                                                   *)
(***************************************************************************)
Edits == {"same", "no_table", "row_less", "row_more", "col_width", "col_widths2",
          "col_less", "row_height", "row_heights2", "top", "left", "width",
          "height", "paras", "paras2", "mixed"}

TwoParas(cell) == cell \o <<Para(<< >>, FALSE)>>
Front(q) == SubSeq(q, 1, Len(q) - 1)

EditTable(sh, e) ==
  CASE e = "row_less" -> [sh EXCEPT !.tbl.cells = Front(@), !.tbl.row_heights = Front(@)]
    [] e = "row_more" -> [sh EXCEPT !.tbl.cells = Append(@, @[Len(@)]),
                                     !.tbl.row_heights = Append(@, @[Len(@)])]
    [] e = "col_width" -> [sh EXCEPT !.tbl.col_widths[2] = @ + 12700]
    [] e = "col_widths2" -> [sh EXCEPT !.tbl.col_widths[1] = @ - 12700,
                                        !.tbl.col_widths[3] = @ + 12700]
    [] e = "col_less" -> [sh EXCEPT !.tbl.col_widths = Front(@),
                                     !.tbl.cells = [r \in 1..Len(@) |-> Front(@[r])]]
    [] e = "row_height" -> [sh EXCEPT !.tbl.row_heights[3] = @ + 50000]
    [] e = "row_heights2" -> [sh EXCEPT !.tbl.row_heights[2] = @ + 50000,
                                         !.tbl.row_heights[5] = @ + 70000]
    [] e = "top" -> [sh EXCEPT !.top = @ + 10]
    [] e = "left" -> [sh EXCEPT !.left = @ + 10]
    [] e = "width" -> [sh EXCEPT !.width = @ + 10]
    [] e = "height" -> [sh EXCEPT !.height = @ + 10]
    [] e = "paras" -> [sh EXCEPT !.tbl.cells[2][1] = TwoParas(@)]
    [] e = "paras2" -> [sh EXCEPT !.tbl.cells[2][1] = TwoParas(@),
                                   !.tbl.cells[4][3] = TwoParas(@)]
    [] e = "mixed" -> [sh EXCEPT !.tbl.cells = [Front(@) EXCEPT ![3][2] = TwoParas(@)],
                                  !.tbl.row_heights = [Front(@) EXCEPT ![2] = @ + 50000],
                                  !.tbl.col_widths[1] = @ + 12700,
                                  !.top = @ + 10, !.left = @ + 10, !.height = @ - 10]
    [] OTHER -> sh

EditSlide(slide, e) ==
  IF e = "no_table" THEN SelectSeq(slide, LAMBDA sh : sh.kind # "table")
  ELSE [k \in 1..Len(slide) |->
          IF slide[k].kind = "table" THEN EditTable(slide[k], e) ELSE slide[k]]

ValInit ==
  /\ \E es \in UNION {[1..n -> Edits] : n \in 1..MaxDocSlides} :
       vdoc = [k \in 1..Len(es) |-> EditSlide(template, es[k])]
  /\ vargs \in {[has_arg |-> TRUE, file_exists |-> TRUE],
                 [has_arg |-> TRUE, file_exists |-> FALSE],
                 [has_arg |-> FALSE, file_exists |-> FALSE]}
  /\ Len(vdoc) > 1 => vargs.file_exists
  /\ vissues = << >>
  /\ vpc = "start"
  /\ vexit = -1

ValIdle ==
  /\ vdoc = << >>
  /\ vargs = [has_arg |-> FALSE, file_exists |-> FALSE]
  /\ vissues = << >>
  /\ vpc = "idle"
  /\ vexit = -1

\* a call of validate(pptx_path)
ValidateCall ==
  /\ vpc = "start"
  /\ vargs.file_exists
  /\ vissues' = Validate(vdoc, template)
  /\ vpc' = "validated"
  /\ UNCHANGED <<vdoc, vargs, vexit>>

\* the command "python validate.py <args>"
ValidatorMain ==
  /\ vpc = "start"
  /\ vexit' = ValidatorExit(vargs.has_arg, vargs.file_exists, vdoc, template)
  /\ vpc' = "exited"
  /\ UNCHANGED <<vdoc, vargs, vissues>>

\* no helper call
CallIdle == call = [fn |-> "none"] /\ ret = [done |-> FALSE, raised |-> FALSE, val |-> 0]

(***************************************************************************)
(* _create_task_dir of several runs started on the same day.  A directory  *)
(* name is a number: 1 for TASKS_DIR/<today>, n >= 2 for <today>_n.        *)
(***************************************************************************)
Runs == 1..MaxRuns

NoRun == [pc |-> "idle", n |-> 0, task_dir |-> 0, saw |-> {}]

\* Path.mkdir as if called with exist_ok = True
Mkdir_ExistOk(dirs, name) == [ok |-> TRUE, dirs |-> dirs \cup {name}]

\* task_dir.mkdir(parents=True): FileExistsError when the directory exists
Mkdir(dirs, name) ==
  IF name \in dirs THEN [ok |-> FALSE, dirs |-> dirs]
  ELSE [ok |-> TRUE, dirs |-> dirs \cup {name}]

DirInit ==
  /\ tasks_dir \in SUBSET (1..MaxOldDirs)
  /\ mk = [r \in Runs |-> NoRun]

DirIdle == tasks_dir = {} /\ mk = << >>

\* lines 523-526: task_dir = TASKS_DIR / today; if task_dir.exists(): n = 2
TaskDirCheck(r) ==
  /\ mk[r].pc = "idle"
  /\ mk' = [mk EXCEPT ![r] = IF 1 \in tasks_dir
                             THEN [@ EXCEPT !.pc = "scan", !.n = 2]
                             ELSE [@ EXCEPT !.pc = "mkdir", !.n = 1]]
  /\ UNCHANGED tasks_dir

\* lines 527-529: one test of the while loop
TaskDirScan(r) ==
  /\ mk[r].pc = "scan"
  /\ mk' = [mk EXCEPT ![r] = IF mk[r].n \in tasks_dir
                             THEN [@ EXCEPT !.n = @ + 1]
                             ELSE [@ EXCEPT !.pc = "mkdir"]]
  /\ UNCHANGED tasks_dir

\* lines 530-533: mkdir; saw is the content of TASKS_DIR it met
TaskDirMkdir(r) ==
  /\ mk[r].pc = "mkdir"
  /\ \E res \in {Mkdir(tasks_dir, mk[r].n)} :
       /\ tasks_dir' = res.dirs
       /\ mk' = [mk EXCEPT ![r] =
                   IF res.ok
                   THEN [@ EXCEPT !.pc = "done", !.task_dir = mk[r].n, !.saw = tasks_dir]
                   ELSE [@ EXCEPT !.pc = "failed", !.saw = tasks_dir]]

InitTaskDir ==
  /\ GenIdle /\ FillIdle /\ ValIdle /\ CallIdle
  /\ templateExists = TRUE /\ template = Template1
  /\ DirInit
NextTaskDir ==
  /\ \E r \in Runs : TaskDirCheck(r) \/ TaskDirScan(r) \/ TaskDirMkdir(r)
  /\ UNCHANGED <<genVars, fillVars, valVars, callVars>>
SpecTaskDir == InitTaskDir /\ [][NextTaskDir]_vars

(***************************************************************************)
(* Single calls of helper functions on arguments of their own.             *)
(***************************************************************************)
NotReturned == [done |-> FALSE, raised |-> FALSE, val |-> 0]
Returned(val) == [done |-> TRUE, raised |-> FALSE, val |-> val]
Raised == [done |-> TRUE, raised |-> TRUE, val |-> 0]

\* breakdowns of 1 .. TABLE_MAX_ROWS + MaxExtraRows rows sorted by price,
\* also with a count that is NaN
DonutCalls ==
  {[fn |-> "donut", brand_df |-> BrandDf(n)] : n \in 1..(TABLE_MAX_ROWS + MaxExtraRows)}
  \cup {[fn |-> "donut", brand_df |-> [BrandDf(n) EXCEPT ![n].total_count = NaN]]
          : n \in 1..(TABLE_MAX_ROWS + MaxExtraRows)}

\* lines 486-496 of generate_single_report
CallDonut ==
  /\ call.fn = "donut"
  /\ ~ret.done
  /\ ret' = Returned(DonutSeries(call.brand_df))
  /\ UNCHANGED call

\* slides of up to n shapes drawn from a palette; a shape's id is its place
SeqsUpTo(palette, n) == UNION {[1..m -> palette] : m \in 0..n}
WithIds(shapes) == [k \in 1..Len(shapes) |-> [shapes[k] EXCEPT !.id = k]]

\* text shapes and tables for the rules of lines 314-343: several markers in
\* one text, m_kikan without yyyy, blank texts right and left of the first
\* shape, a table frame that carries text, a text without any marker
TextPalette ==
  {TextShape(0, {"m_title", "MAU"}, 100, 300, <<<<"MAU", "m_title">>>>),
   TextShape(0, {"m_kikan", "m_brand"}, 100, 300, <<<<"m_brand", "m_kikan">>>>),
   TextShape(0, {"m_kikan", "yyyy", "m_reg"}, 100, 300, <<<<"m_reg", "m_kikan", "yyyy">>>>),
   TextShape(0, {"m_login_trend", "m_purchase_trend"}, 100, 300,
             <<<<"m_login_trend", "m_purchase_trend">>>>),
   TextShape(0, {}, 100, 300, <<<<"x">>>>),
   [TextShape(0, {}, 100, 500, <<<<" ">>>>) EXCEPT !.blank = TRUE],
   [TextShape(0, {}, 100, 100, <<<<" ">>>>) EXCEPT !.blank = TRUE],
   [TableShape(0, TableA) EXCEPT !.marks = {"m_title"}]}

\* pictures above a label at top 600, level with it, two at the same
\* distance below it and one farther below
PicPalette ==
  {PicShape(0, 500, 300, 5000), PicShape(0, 600, 300, 5000),
   PicShape(0, 700, 300, 5000), PicShape(0, 700, 300, 3000),
   PicShape(0, 900, 300, 4000)}

LabelSets ==
  {<<TextShape(0, {"m_login_trend"}, 600, 300, LabelRuns("m_login_trend"))>>,
   <<TextShape(0, {"m_brand"}, 600, 300, <<<<"m_brand">>>>)>>,
   <<TextShape(0, {"m_login_trend"}, 600, 300, LabelRuns("m_login_trend")),
     TextShape(0, {"m_brand"}, 600, 300, <<<<"m_brand">>>>)>>,
   <<TextShape(0, {"m_purchase_trend"}, 650, 300, LabelRuns("m_purchase_trend")),
     TextShape(0, {"m_brand"}, 600, 300, <<<<"m_brand">>>>)>>,
   <<TextShape(0, {"m_login_trend"}, 600, 300, LabelRuns("m_login_trend")),
     TextShape(0, {"m_purchase_trend"}, 650, 300, LabelRuns("m_purchase_trend"))>>}

DetectCalls ==
  {[fn |-> "detect", slide |-> WithIds(shapes)]
     : shapes \in SeqsUpTo(TextPalette, MaxShapes) \ {<< >>}}
  \cup {[fn |-> "detect", slide |-> WithIds(labels \o pics)]
          : labels \in LabelSets, pics \in SeqsUpTo(PicPalette, MaxShapes)}

\* _detect_shapes
CallDetect ==
  /\ call.fn = "detect"
  /\ ~ret.done
  /\ ret' = Returned(DetectShapes(call.slide))
  /\ UNCHANGED call

\* the templates, Template1 with its brand pictures rearranged and Template1
\* without one of its shapes, with the data of every profile
GenerateCalls ==
  {[fn |-> "generate", slide |-> slide, data |-> LoadedData([c \in {1} |-> d], 1)]
     : slide \in Templates \cup {NarrowFirst, EqualWidths}
                 \cup {RemoveShape(Template1, id) : id \in 1..Len(Template1)},
       d \in Profiles}

\* generate_single_report for entity 1
CallGenerate ==
  /\ call.fn = "generate"
  /\ ~ret.done
  /\ \E res \in {GenerateSingleReport(call.slide, 1, SummaryRow(1, 1), call.data)} :
       ret' = IF res.ok THEN Returned(res.slide) ELSE Raised
  /\ UNCHANGED call

\* a chart label whose first paragraph has n runs, each of a size of its own
LabelOf(n) ==
  [TextShape(1, {"m_login_trend"}, 600, 300, << >>) EXCEPT
     !.paras = <<Para([r \in 1..n |-> Run(<<"r", DigitTok(r)>>, 20 + r)], FALSE)>>]

\* labels of 0 .. 7 runs, one with a second paragraph of 6 runs and a picture;
\* months with one, no and two slashes; a total, zero and "" (-1)
LabelCalls ==
  {[fn |-> "label", shape |-> sh, period_month |-> pm, value |-> v, unit |-> u]
     : sh \in {LabelOf(n) : n \in 0..7}
               \cup {[LabelOf(2) EXCEPT !.paras = @ \o LabelOf(6).paras],
                     PicShape(1, 700, 300, 5000)},
       pm \in {<<"2", "0", "2", "6", "/", "0", "2">>, <<"2", "0", "2", "6", "-", "0", "2">>,
               <<"2", "0", "2", "6", "/", "0", "2", "/", "0", "1">>, EmptyText},
       v \in {-1, 0, 1234},
       u \in {<<"nin">>, <<"ken">>, EmptyText}}

\* replace_chart_label_runs; val is the shape afterwards
CallLabel ==
  /\ call.fn = "label"
  /\ ~ret.done
  /\ ret' = [done |-> TRUE,
             raised |-> LabelRaises(call.shape, call.period_month),
             val |-> ReplaceChartLabelRuns(call.shape, call.period_month,
                                           call.value, call.unit)]
  /\ UNCHANGED call

\* texts of 0 .. MaxWide full-width and 0 .. 3 half-width characters, in
\* both orders
FontTexts ==
  {[k \in 1..n |-> "W"] \o [k \in 1..m |-> "a"] : n \in 0..MaxWide, m \in 0..3}
  \cup {[k \in 1..m |-> "1"] \o [k \in 1..n |-> "yen"] : n \in 1..MaxWide, m \in 1..2}

\* column widths: none, the margins alone, and for every text width the
\* widths at which a size just fits, fits with 1 EMU to spare and fails by
\* 1 EMU
FontWidths ==
  {0, DEFAULT_CELL_MARGIN, 2 * DEFAULT_CELL_MARGIN}
  \cup {2 * DEFAULT_CELL_MARGIN + w2 * size2 * EmuPerQuarter + d
          : w2 \in 1..(2 * MaxWide + 3),
            size2 \in {MinSize2 - 1, MinSize2, MinSize2 + 1, 17,
                       BaseSize2 - 1, BaseSize2},
            d \in {-1, 0, 1}}

FontCalls ==
  {[fn |-> "font", text |-> t, col_width |-> w] : t \in FontTexts, w \in FontWidths}

\* _calc_font_size_for_cell
CallFont ==
  /\ call.fn = "font"
  /\ ~ret.done
  /\ ret' = Returned(CalcFontSizeForCell(call.text, call.col_width))
  /\ UNCHANGED call

\* column widths at which a text width just fits at 7.0, 8.5 and 10.5pt
FontPairWidths ==
  {0, DEFAULT_CELL_MARGIN, 2 * DEFAULT_CELL_MARGIN}
  \cup {2 * DEFAULT_CELL_MARGIN + w2 * size2 * EmuPerQuarter
          : w2 \in 1..(2 * MaxWide + 3), size2 \in {MinSize2, 17, BaseSize2}}

\* two texts for one column
FontPairCalls ==
  {[fn |-> "fontpair", a |-> a, b |-> b, col_width |-> w]
     : a \in FontTexts, b \in FontTexts, w \in FontPairWidths}

\* _calc_font_size_for_cell for each of two texts
CallFontPair ==
  /\ call.fn = "fontpair"
  /\ ~ret.done
  /\ ret' = Returned([a |-> CalcFontSizeForCell(call.a, call.col_width),
                      b |-> CalcFontSizeForCell(call.b, call.col_width)])
  /\ UNCHANGED call

CallInit ==
  /\ call \in DonutCalls \cup DetectCalls \cup GenerateCalls \cup LabelCalls
                \cup FontCalls \cup FontPairCalls
  /\ ret = NotReturned

InitCall ==
  /\ GenIdle /\ FillIdle /\ ValIdle /\ DirIdle
  /\ templateExists = TRUE /\ template = Template1
  /\ CallInit
NextCall ==
  /\ CallDonut \/ CallDetect \/ CallGenerate \/ CallLabel \/ CallFont
     \/ CallFontPair
  /\ UNCHANGED <<genVars, fillVars, valVars, dirVars>>
SpecCall == InitCall /\ [][NextCall]_vars

\* the generator run
Init == GenInit /\ FillIdle /\ ValIdle /\ DirIdle /\ CallIdle
Next == GenNext /\ UNCHANGED <<fillVars, valVars, dirVars, callVars>>
Spec == Init /\ [][Next]_vars

\* a single call of fill_table_by_ref
InitFill ==
  /\ FillInit /\ GenIdle /\ ValIdle /\ DirIdle /\ CallIdle
  /\ templateExists = TRUE /\ template = Template1
NextFill == FillStep /\ UNCHANGED <<genVars, valVars, dirVars, callVars>>
SpecFill == InitFill /\ [][NextFill]_vars

\* the validator
InitValidate ==
  /\ GenIdle /\ FillIdle /\ DirIdle /\ CallIdle
  /\ templateExists = TRUE /\ template \in Templates /\ ValInit
NextValidate ==
  (ValidateCall \/ ValidatorMain) /\ UNCHANGED <<genVars, fillVars, dirVars, callVars>>
SpecValidate == InitValidate /\ [][NextValidate]_vars

(***************************************************************************)
(* Properties                                                              *)
(***************************************************************************)
DataRows(tbl) == {r \in 2..(TABLE_MAX_ROWS + 1) : r <= Len(tbl.cells)}

SameGeometry(a, b) ==
  /\ Len(a.tbl.cells) = Len(b.tbl.cells)
  /\ \A r \in 1..Len(a.tbl.cells) : Len(a.tbl.cells[r]) = Len(b.tbl.cells[r])
  /\ a.tbl.col_widths = b.tbl.col_widths
  /\ a.tbl.row_heights = b.tbl.row_heights
  /\ a.top = b.top /\ a.left = b.left /\ a.width = b.width /\ a.height = b.height

\* C3: fill_table_by_ref keeps the row count, the column count, the column
\* widths and the number of cells of the table whatever the number of
\* supplied rows; data row i (i <= 10) is written into table row i, supplied
\* rows beyond the 10th are dropped, every cell of rows 1..10 without
\* supplied data has empty text, and the other rows are left as they were.
C3_FillKeepsGeometry ==
  fdone =>
    /\ SameGeometry(fshape, fbefore)
    /\ fshape.kind # "table" => fshape = fbefore
    /\ \A r \in 1..Len(fshape.tbl.cells) : \A j \in 1..Len(fshape.tbl.cells[r]) :
         IF r \in DataRows(fshape.tbl)
         THEN CellText(fshape.tbl.cells[r][j]) =
                IF r - 1 <= Len(fdf) /\ j <= Len(TABLE_COLUMNS)
                THEN CellTextOf(TABLE_COLUMNS[j], DfGet(fdf[r - 1], TABLE_COLUMNS[j]))
                ELSE EmptyText
         ELSE fshape.tbl.cells[r][j] = fbefore.tbl.cells[r][j]

\* a table was filled from more rows than it has data rows
C3_Witness ==
  /\ fdone
  /\ fshape.kind = "table"
  /\ Len(fdf) > TABLE_MAX_ROWS
  /\ fshape # fbefore

\* a shape with the identity of its image part left out
NoPart(sh) == [sh EXCEPT !.img.part = 0]
SameSlide(a, b) ==
  /\ Len(a) = Len(b)
  /\ \A k \in 1..Len(a) : NoPart(a[k]) = NoPart(b[k])

Succeeded == pc = "exited" /\ exitCode = 0

\* C1: after a successful run the output holds one slide per entity and
\* its k-th slide is the slide generated for the k-th entity of the
\* summary table.
C1_SlidePerEntityInOrder ==
  Succeeded =>
    /\ Len(outputFile) = Len(client_names)
    /\ Len(generated) = Len(client_names)
    /\ \A k \in 1..Len(outputFile) :
         /\ generated[k].name = client_names[k]
         /\ SameSlide(outputFile[k], generated[k].slide)

TableOf(slide) == slide[SetMin(TableIdx(slide))].tbl

Cleared(slide, refs, role) == ~HasShape(slide, refs[role])

NoChartOf(slide, src) == \A k \in 1..Len(slide) : slide[k].img.src # src

DataCellsEmpty(tbl) ==
  \A r \in DataRows(tbl) : \A j \in 1..Len(tbl.cells[r]) :
    CellText(tbl.cells[r][j]) = EmptyText

\* C2: in the slide of every entity generated without login, purchase or
\* brand rows, the picture bound to that region is gone and no chart was
\* put in its place; without brand rows every cell of table rows 1..10
\* has empty text.
C2_EmptyDatasetCleared ==
  \A refs \in {DetectShapes(template)} : \A k \in 1..Len(generated) :
    LET g == generated[k]
        d == dataOf[g.name]
    IN g.ok =>
         /\ d.login = << >> =>
              Cleared(g.slide, refs, "login_chart_image") /\ NoChartOf(g.slide, "login")
         /\ d.purchase = << >> =>
              Cleared(g.slide, refs, "purchase_chart_image") /\ NoChartOf(g.slide, "purchase")
         /\ d.brand = << >> =>
              /\ Cleared(g.slide, refs, "brand_chart_image1")
              /\ Cleared(g.slide, refs, "brand_chart_image2")
              /\ NoChartOf(g.slide, "brand")
              /\ DataCellsEmpty(TableOf(g.slide))

\* a slide was generated for an entity without any dataset from a template
\* that has a picture for each region and dummy text in its table
C2_Witness ==
  \E k \in 1..Len(generated) :
    /\ generated[k].ok
    /\ dataOf[generated[k].name] = Profile(0, 0, 0)
    /\ \A role \in {"login_chart_image", "purchase_chart_image", "brand_chart_image1"} :
         DetectShapes(template)[role] # 0
    /\ ~DataCellsEmpty(TableOf(template))

\* C4: validate() finds no issue of severity "error" in the merged output
\* of a run, compared with the template of that run.
C4_RoundTripNoError ==
  outputFile # << >> => ~HasError(Validate(outputFile, template))

\* an output of two slides, one of them filled from more than 10 rows
C4_Witness ==
  /\ Len(outputFile) >= 2
  /\ \E k \in 1..Len(generated) :
       Len(dataOf[generated[k].name].brand) > TABLE_MAX_ROWS

DetectionDone ==
  \/ pc \in {"load", "generate", "merge", "open"}
  \/ pc = "exited" /\ exitAt \notin {"start", "copy"}

NothingProduced ==
  /\ generated = << >>
  /\ tmpMade = {}
  /\ outputFile = << >>
  /\ ~inputsRead

\* C7: once detect_csv_files has run on the copied inputs, if some role
\* has no file the run has exited there with a nonzero code, the reported
\* list is exactly the set of roles without a file, and neither a
\* per-entity document nor the output was written.
C7_MissingRoleStopsRun ==
  (DetectionDone /\ \E r \in Roles : csv_files[r] = NoFile) =>
    /\ pc = "exited"
    /\ exitAt = "detect"
    /\ exitCode # 0
    /\ missing = {r \in Roles : csv_files[r] = NoFile}
    /\ NothingProduced

\* the run stopped on inputs that were copied but lack a role
C7_Witness ==
  /\ pc = "exited"
  /\ exitAt = "detect"
  /\ taskInput # {}
  /\ missing = {"purchase", "brand"}

\* C8: while the template is absent nothing is done: the run is at its
\* start or has exited there with a nonzero code, and no task directory
\* was created, no input copied or read and no output written.
C8_NoTemplateNoProcessing ==
  ~templateExists =>
    /\ pc = "start" \/ (pc = "exited" /\ exitAt = "start" /\ exitCode # 0)
    /\ ~taskDir
    /\ taskInput = {}
    /\ NothingProduced

\* the run has ended for want of the template
C8_Witness == ~templateExists /\ pc = "exited" /\ argv.files # {}

\* C9: when generate_single_report fails for an entity, it is the last
\* entity processed, the run has ended there with a nonzero code, and
\* there is no merged output file.
C9_AbortAtFailure ==
  \A k \in 1..Len(generated) :
    ~generated[k].ok =>
      /\ k = Len(generated)
      /\ pc = "exited"
      /\ exitAt = "generate"
      /\ exitCode # 0
      /\ outputFile = << >>

\* an entity failed while another one was still to be processed
C9_Witness ==
  /\ pc = "exited"
  /\ Len(generated) >= 1
  /\ ~generated[Len(generated)].ok
  /\ Len(client_names) > Len(generated)

ErrorKinds == {"no_table", "rows", "cols", "col_width", "size", "paragraphs"}
WarningKinds == {"row_height", "position"}

\* the discrepancies between the first table g of slide k and the table t
\* of the template, each as the issue that reports it
Discrepancies(k, g, t) ==
  LET common(a, b) == 1..Min2(Len(a), Len(b))
  IN {Issue(k, "error", "rows", 0, 0) : x \in {n \in {1} : Len(g.tbl.cells) # Len(t.tbl.cells)}}
     \cup {Issue(k, "error", "cols", 0, 0) : x \in {n \in {1} : Len(g.tbl.col_widths) # Len(t.tbl.col_widths)}}
     \cup {Issue(k, "warning", "row_height", i - 1, 0) :
             i \in {n \in common(g.tbl.row_heights, t.tbl.row_heights) :
                      g.tbl.row_heights[n] # t.tbl.row_heights[n]}}
     \cup {Issue(k, "error", "col_width", i - 1, 0) :
             i \in {n \in common(g.tbl.col_widths, t.tbl.col_widths) :
                      g.tbl.col_widths[n] # t.tbl.col_widths[n]}}
     \cup {Issue(k, "warning", "position", 0, 0) :
             x \in {n \in {1} : g.top # t.top \/ g.left # t.left}}
     \cup {Issue(k, "error", "size", 0, 0) :
             x \in {n \in {1} : g.width # t.width \/ g.height # t.height}}
     \cup UNION {{Issue(k, "error", "paragraphs", r - 1, j - 1) :
                    j \in {n \in 1..Len(g.tbl.cells[r]) : Len(g.tbl.cells[r][n]) > 1}} :
                  r \in 1..Len(g.tbl.cells)}

FirstTable(slide) == slide[SetMin(TableIdx(slide))]

ExpectedIssues(doc, tmpl) ==
  UNION {IF TableIdx(doc[k]) = {} THEN {Issue(k, "error", "no_table", 0, 0)}
         ELSE Discrepancies(k, FirstTable(doc[k]), FirstTable(tmpl)) : k \in 1..Len(doc)}

\* the slide agrees with the template in every metric validate looks at
SlideMatches(slide, tmpl) ==
  /\ TableIdx(slide) # {}
  /\ LET g == FirstTable(slide)
         t == FirstTable(tmpl)
     IN /\ Len(g.tbl.cells) = Len(t.tbl.cells)
        /\ g.tbl.row_heights = t.tbl.row_heights
        /\ g.tbl.col_widths = t.tbl.col_widths
        /\ <<g.top, g.left, g.width, g.height>> = <<t.top, t.left, t.width, t.height>>
        /\ \A r \in 1..Len(g.tbl.cells) : \A j \in 1..Len(g.tbl.cells[r]) :
             Len(g.tbl.cells[r][j]) <= 1

\* C5: the list validate() returns holds exactly one issue for each
\* discrepancy of each slide (row count, column count, each differing row
\* height, each differing column width, position, size, each cell of more
\* than one paragraph, or no table at all), with severity "warning" for row
\* heights and position and "error" for the others, and it is empty only
\* when every slide agrees with the template.
C5_OneIssuePerDiscrepancy ==
  vpc = "validated" =>
    /\ Range(vissues) = ExpectedIssues(vdoc, template)
    /\ Len(vissues) = Cardinality(ExpectedIssues(vdoc, template))
    /\ \A k \in 1..Len(vissues) :
         /\ vissues[k].kind \in ErrorKinds <=> vissues[k].severity = "error"
         /\ vissues[k].kind \in WarningKinds <=> vissues[k].severity = "warning"
    /\ vissues = << >> <=> \A k \in 1..Len(vdoc) : SlideMatches(vdoc[k], template)

\* a deck with two differing row heights on one slide and two errors on
\* another one
C5_Witness ==
  /\ vpc = "validated"
  /\ \E a, b \in 1..Len(vissues) :
       /\ a # b
       /\ vissues[a].kind = "row_height" /\ vissues[b].kind = "row_height"
       /\ vissues[a].slide = vissues[b].slide
       /\ \E c, d \in 1..Len(vissues) :
            /\ c # d
            /\ vissues[c].severity = "error" /\ vissues[d].severity = "error"
            /\ vissues[c].slide = vissues[d].slide
            /\ vissues[c].slide # vissues[a].slide

\* C6: given an existing output file, the validator command exits with a
\* nonzero code if and only if validate() reports an issue of severity
\* "error".
C6_ExitNonzeroIffError ==
  (vpc = "exited" /\ vargs.has_arg /\ vargs.file_exists) =>
    (vexit # 0 <=> HasError(Validate(vdoc, template)))

\* a temporary file that is still on disk
OnDisk(f) ==
  \/ f \in sysTmp
  \/ f \in tmpCharts
  \/ f.kind = "doc" /\ f.a \in DOMAIN tmpDocs

\* C10: when the run has terminated, on any path, every temporary chart
\* image, working document and image file of _copy_slide is deleted.
C10_TempFilesDeleted ==
  pc = "exited" => \A f \in tmpMade : ~OnDisk(f)

\* the name _create_task_dir is to give when these directories exist
RECURSIVE FreeSuffix(_, _)
FreeSuffix(dirs, n) == IF n \in dirs THEN FreeSuffix(dirs, n + 1) ELSE n

FreshName(dirs) == IF 1 \in dirs THEN FreeSuffix(dirs, 2) ELSE 1

\* C11: every run that got a task directory got one that did not exist
\* before its call, the directory named by the date when that was free and
\* otherwise date_n with the smallest free n >= 2, and no two runs got the
\* same directory.
C11_FreshTaskDir ==
  \A r \in DOMAIN mk :
    mk[r].pc = "done" =>
      /\ mk[r].task_dir \notin mk[r].saw
      /\ mk[r].task_dir = FreshName(mk[r].saw)
      /\ mk[r].task_dir \in tasks_dir
      /\ \A q \in DOMAIN mk :
           q # r /\ mk[q].pc = "done" => mk[q].task_dir # mk[r].task_dir

\* three runs of the same day got their directories; the date's directory
\* and date_3 existed before, so one run skipped a suffix in use
C11_Witness ==
  /\ Cardinality(DOMAIN mk) >= 3
  /\ \A r \in DOMAIN mk : mk[r].pc = "done"
  /\ \E r \in DOMAIN mk : mk[r].task_dir = 2 /\ mk[r].saw = {1, 3}
  /\ \E r \in DOMAIN mk : mk[r].task_dir = 4


\* C12: when the input files are given on the command line (one per role,
\* all of them existing), the run does not stop for a missing role and the
\* files used for the roles are the given files, whatever their names.
C12_ExplicitPathsUsed ==
  (argv.mode = "files" /\ argv.allExist /\ DetectionDone) =>
    /\ missing = {}
    /\ {csv_files[k] : k \in Roles} = argv.files


\* the slide generate_single_report returns for this entity when the CSV
\* files hold these rows
SlideFrom(rows_of, name) ==
  GenerateSingleReport(template, name, summary_by_client[name],
                       LoadedData(rows_of, name)).slide

\* C13: the slide generated for an entity is the slide any run generates
\* for it whose CSV files hold the same rows for this entity, whatever rows
\* they hold for the other entities.  (Equal arguments of
\* generate_single_report give equal slides; the slides are compared when
\* the arguments differ.)
C13_EntitiesIndependent ==
  \A k \in 1..Len(generated) :
    LET name == generated[k].name
    IN generated[k].ok =>
         \A other \in [DOMAIN csv_rows -> Profiles] :
           other[name] = csv_rows[name] =>
             \/ LoadedData(other, name) = dataOf[name]
             \/ SlideFrom(other, name) = generated[k].slide

\* the sum of column col over rows lo..hi of a breakdown, NaN skipped
RECURSIVE SumRows(_, _, _, _)
SumRows(df, col, lo, hi) ==
  IF hi < lo THEN 0
  ELSE SumRows(df, col, lo, hi - 1)
       + (IF DfGet(df[hi], col).t = "num" THEN DfGet(df[hi], col).n ELSE 0)

RECURSIVE DonutSum(_, _, _)
DonutSum(d, field, k) ==
  IF k = 0 THEN 0
  ELSE DonutSum(d, field, k - 1)
       + (LET v == IF field = "count" THEN d[k].count ELSE d[k].price
          IN IF v.t = "num" THEN v.n ELSE 0)

\* C14: the donut series of a breakdown of n rows is its first min(n, 8)
\* rows, followed exactly when n > 8 by one "other" row holding the sums of
\* count and price over rows 9..n; the sums over the series equal the sums
\* over all n rows.
C14_DonutTopEightPlusOther ==
  (call.fn = "donut" /\ ret.done) =>
    LET df == call.brand_df
        d == ret.val
        n == Len(df)
        h == IF n < BRAND_DONUT_MAX THEN n ELSE BRAND_DONUT_MAX
    IN /\ ~ret.raised
       /\ Len(d) = IF n > BRAND_DONUT_MAX THEN h + 1 ELSE h
       /\ \A k \in 1..h :
            /\ d[k].label = df[k].brand_name
            /\ d[k].count = df[k].total_count
            /\ d[k].price = df[k].total_price
       /\ n > BRAND_DONUT_MAX =>
            /\ d[h + 1].label = Str(<<"jp_other">>)
            /\ d[h + 1].count = Num(SumRows(df, "total_count", BRAND_DONUT_MAX + 1, n))
            /\ d[h + 1].price = Num(SumRows(df, "total_price", BRAND_DONUT_MAX + 1, n))
       /\ DonutSum(d, "count", Len(d)) = SumRows(df, "total_count", 1, n)
       /\ DonutSum(d, "price", Len(d)) = SumRows(df, "total_price", 1, n)

\* the series of a breakdown of 12 rows was built: 8 rows and the bucket
C14_Witness ==
  /\ call.fn = "donut" /\ ret.done
  /\ Len(call.brand_df) = BRAND_DONUT_MAX + 4
  /\ Len(ret.val) = BRAND_DONUT_MAX + 1

(***************************************************************************)
(* Missing roles                                                           *)
(***************************************************************************)
\* the roles whose absence _detect_shapes prints as a warning (lines 384-387)
WarnedRoles == {"title", "period", "reg_users", "mau", "distribution", "table",
                "login_chart_image", "purchase_chart_image",
                "login_chart_label", "purchase_chart_label",
                "brand_chart_image1", "brand_chart_label"}

\* C15: when _detect_shapes finds no shape for a role it warns about,
\* generate_single_report still returns without raising an error.
C15_MissingRoleOnlyWarns ==
  (/\ call.fn = "generate"
   /\ ret.done
   /\ \E role \in WarnedRoles : DetectShapes(call.slide)[role] = 0)
  => ~ret.raised

(***************************************************************************)
(* Role detection                                                          *)
(***************************************************************************)
RuleOrder == <<"title", "period", "reg_users", "mau", "distribution",
               "top_tickets_label", "purchase_chart_label", "login_chart_label",
               "brand_chart_label", "empty_text">>

\* the markers of a rule occur in the shape's text
RuleHolds(role, shape, slide) ==
  CASE role = "title" -> "m_title" \in shape.marks
    [] role = "period" -> {"m_kikan", "yyyy"} \subseteq shape.marks
    [] role = "reg_users" -> "m_reg" \in shape.marks
    [] role = "mau" -> "MAU" \in shape.marks
    [] role = "distribution" -> shape.marks \cap {"m_ryutsu", "m_soukounyu"} # {}
    [] role = "top_tickets_label" -> shape.marks \cap {"m_top", "TOP10"} # {}
    [] role = "purchase_chart_label" -> "m_purchase_trend" \in shape.marks
    [] role = "login_chart_label" -> "m_login_trend" \in shape.marks
    [] role = "brand_chart_label" -> "m_brand" \in shape.marks
    [] role = "empty_text" -> shape.blank /\ shape.left > slide[1].left

\* the shapes a role may be bound to: text shapes for which the role's rule
\* is the first that holds
Candidates(slide, role) ==
  {k \in 1..Len(slide) :
     /\ slide[k].kind = "text"
     /\ \E n \in 1..Len(RuleOrder) :
          /\ RuleOrder[n] = role
          /\ RuleHolds(role, slide[k], slide)
          /\ \A m \in 1..(n - 1) : ~RuleHolds(RuleOrder[m], slide[k], slide)}

Tables(slide) == {k \in 1..Len(slide) : slide[k].kind = "table"}

\* C16: _detect_shapes binds "table" to a shape that contains a table,
\* whatever its text, and each text role to a text shape for which that role
\* is the first rule, in the fixed order, whose markers occur in its text
\* (the last such shape of the slide); no shape is bound to two of these roles.
C16_FirstRuleWins ==
  (call.fn = "detect" /\ ret.done) =>
    LET slide == call.slide
        refs == ret.val
    IN /\ IF Tables(slide) = {} THEN refs["table"] = 0
          ELSE refs["table"] = slide[SetMax(Tables(slide))].id
       /\ \A role \in TextRoles :
            IF Candidates(slide, role) = {} THEN refs[role] = 0
            ELSE refs[role] = slide[SetMax(Candidates(slide, role))].id
       /\ \A r1, r2 \in TextRoles \cup {"table"} :
            (r1 # r2 /\ refs[r1] # 0) => refs[r1] # refs[r2]

\* a text with the markers of two rules went to the earlier rule, and a
\* table frame that carries a marker is the table and not the title
C16_Witness ==
  /\ call.fn = "detect" /\ ret.done
  /\ \E k \in 1..Len(call.slide) :
       /\ call.slide[k].kind = "text"
       /\ {"m_title", "MAU"} \subseteq call.slide[k].marks
       /\ ret.val["title"] = call.slide[k].id
       /\ ret.val["mau"] = 0
  /\ \E k \in 1..Len(call.slide) :
       /\ call.slide[k].kind = "table"
       /\ "m_title" \in call.slide[k].marks
       /\ ret.val["table"] = call.slide[k].id

\* the pictures strictly below the shape of this id
Below(slide, id) ==
  {k \in PictureIdx(slide) : slide[k].top > ShapeById(slide, id).top}

\* the pictures of S nearest to the top of the shape of this id
Nearest(slide, id, S) ==
  {k \in S : \A m \in S :
     slide[k].top - ShapeById(slide, id).top <= slide[m].top - ShapeById(slide, id).top}

ImageOfLabel ==
  [login_chart_label |-> "login_chart_image",
   purchase_chart_label |-> "purchase_chart_image"]

\* C17: the image region of the login and of the purchase chart label is the
\* picture strictly below the label at the smallest vertical offset, the
\* first in shape order among those at that offset; it is absent when the
\* label is missing or no picture lies strictly below it.
C17_NearestPictureBelow ==
  (call.fn = "detect" /\ ret.done) =>
    \A label \in DOMAIN ImageOfLabel :
      LET slide == call.slide
          lab == ret.val[label]
          img == ret.val[ImageOfLabel[label]]
      IN IF lab = 0 THEN img = 0
         ELSE IF Below(slide, lab) = {} THEN img = 0
         ELSE img = slide[SetMin(Nearest(slide, lab, Below(slide, lab)))].id

\* two pictures at the same smallest offset below the login label and a
\* picture level with the label: the first of the two was taken
C17_Witness ==
  /\ call.fn = "detect" /\ ret.done
  /\ ret.val["login_chart_label"] # 0
  /\ LET slide == call.slide
         lab == ret.val["login_chart_label"]
         near == Nearest(slide, lab, Below(slide, lab))
     IN /\ Cardinality(near) = 2
        /\ \E k \in PictureIdx(slide) : slide[k].top = ShapeById(slide, lab).top
        /\ \E k \in PictureIdx(slide) : k < SetMin(near) /\ k \notin Below(slide, lab)
        /\ ret.val["login_chart_image"] = slide[SetMin(near)].id

\* no picture is below this label, and no label: the region is absent
C17_WitnessAbsent ==
  /\ call.fn = "detect" /\ ret.done
  /\ ret.val["login_chart_label"] # 0
  /\ PictureIdx(call.slide) # {}
  /\ ret.val["login_chart_image"] = 0

(***************************************************************************)
(* The two pictures of the brand region                                    *)
(***************************************************************************)
\* the pictures of the result that came with the template
TemplatePics(slide) ==
  {k \in 1..Len(slide) : slide[k].kind = "pic" /\ slide[k].img.src = "template"}

\* C18: when two pictures are associated with the brand label, _detect_shapes
\* binds the wider one to brand_chart_image1 and the narrower one to
\* brand_chart_image2, and after generate_single_report neither of the two
\* template pictures is left on the slide: the narrower one is removed, the
\* wider one is replaced by the chart (at its place and size) when there is
\* brand data and removed when there is none.
C18_WiderIsPrimary ==
  /\ (call.fn = "detect" /\ ret.done /\ Cardinality(BrandPics(call.slide)) = 2) =>
       \A a, b \in BrandPics(call.slide) :
         call.slide[a].width > call.slide[b].width =>
           /\ ret.val["brand_chart_image1"] = call.slide[a].id
           /\ ret.val["brand_chart_image2"] = call.slide[b].id
  /\ (/\ call.fn = "generate" /\ ret.done /\ ~ret.raised
      /\ Cardinality(BrandPics(call.slide)) = 2) =>
       LET old == call.slide
           new == ret.val
           charts == {k \in 1..Len(new) : new[k].img.src = "brand"}
       IN /\ \A k \in TemplatePics(new) :
               \A m \in BrandPics(old) : new[k].id # old[m].id
          /\ IF Len(call.data.brand) = 0 THEN charts = {}
             ELSE /\ Cardinality(charts) = 1
                  /\ \A k \in charts : \A m \in BrandPics(old) :
                       /\ new[k].width >= old[m].width
                       /\ new[k].top = old[m].top

\* the narrower picture comes first in shape order: detection took the wider
\* one as primary
C18_WitnessDetect ==
  /\ call.fn = "detect" /\ ret.done
  /\ \E a, b \in BrandPics(call.slide) :
       /\ Cardinality(BrandPics(call.slide)) = 2
       /\ b < a
       /\ call.slide[a].width > call.slide[b].width
       /\ ret.val["brand_chart_image1"] = call.slide[a].id

\* a generated slide of a template with the narrower picture first and brand
\* data: the chart stands at the wider picture's place
C18_Witness ==
  /\ call.fn = "generate" /\ ret.done /\ ~ret.raised
  /\ call.slide = NarrowFirst
  /\ Len(call.data.brand) > 0
  /\ \E k \in 1..Len(ret.val) : ret.val[k].img.src = "brand" /\ ret.val[k].width = 6000

\* without brand data both pictures are gone
C18_WitnessNoData ==
  /\ call.fn = "generate" /\ ret.done /\ ~ret.raised
  /\ Cardinality(BrandPics(call.slide)) = 2
  /\ Len(call.data.brand) = 0
  /\ Len(ret.val) < Len(call.slide) - 1

(***************************************************************************)
(* Chart label runs                                                        *)
(***************************************************************************)
\* the 1-based places of runs 2, 3 and 5
Rewritten == {3, 4, 6}

Slashes(text) == {k \in 1..Len(text) : text[k] = "/"}

\* C19: replace_chart_label_runs on a first paragraph of at least 6 runs
\* changes nothing but the text of runs 2, 3 and 5 (0-indexed), which become
\* the year, "/" and the month, and ":" value unit ")"; on a first paragraph
\* of fewer than 6 runs it changes nothing and raises no error.
C19_OnlyRunsTwoThreeFive ==
  (call.fn = "label" /\ ret.done) =>
    LET old == call.shape
        new == ret.val
        pm == call.period_month
    IN IF old.kind # "text" \/ Len(old.paras[1].runs) < 6
       THEN ~ret.raised /\ new = old
       ELSE /\ [new EXCEPT !.paras = << >>] = [old EXCEPT !.paras = << >>]
            /\ Len(new.paras) = Len(old.paras)
            /\ Tail(new.paras) = Tail(old.paras)
            /\ new.paras[1].compact = old.paras[1].compact
            /\ Len(new.paras[1].runs) = Len(old.paras[1].runs)
            /\ \A r \in 1..Len(old.paras[1].runs) :
                 /\ new.paras[1].runs[r].sz = old.paras[1].runs[r].sz
                 /\ r \notin Rewritten =>
                      new.paras[1].runs[r].text = old.paras[1].runs[r].text
            /\ ~ret.raised =>
                 /\ new.paras[1].runs[6].text =
                      <<":">> \o (IF call.value < 0 THEN EmptyText ELSE FmtInt(call.value))
                              \o call.unit \o <<")">>
                 /\ IF Slashes(pm) = {}
                    THEN /\ new.paras[1].runs[3].text = <<"y", "y", "y", "y">>
                         /\ new.paras[1].runs[4].text = <<"/", "m", "m">>
                    ELSE new.paras[1].runs[3].text \o new.paras[1].runs[4].text = pm

\* seven runs and a month with one slash: runs 2, 3 and 5 were rewritten
C19_Witness ==
  /\ call.fn = "label" /\ ret.done /\ ~ret.raised
  /\ call.shape.kind = "text"
  /\ Len(call.shape.paras[1].runs) = 7
  /\ call.value = 1234
  /\ ret.val.paras[1].runs[3].text = <<"2", "0", "2", "6">>
  /\ ret.val.paras[1].runs[4].text = <<"/", "0", "2">>
  /\ ret.val.paras[1].runs[6].text = <<":", "1", ",", "2", "3", "4", "nin", ")">>
  /\ ret.val.paras[1].runs[7] = call.shape.paras[1].runs[7]

\* five runs: nothing happened
C19_WitnessSkipped ==
  /\ call.fn = "label" /\ ret.done /\ ~ret.raised
  /\ call.shape.kind = "text"
  /\ Len(call.shape.paras[1].runs) = 5
  /\ Len(call.shape.paras) = 1
  /\ Slashes(call.period_month) # {}
  /\ ret.val = call.shape

(***************************************************************************)
(* Font size of a table cell                                               *)
(***************************************************************************)
\* the text, estimated in half-width characters, fits the column at a size
\* given in half points: (w2 / 2) * (size2 / 2) * 12700 <= available
FitsAt(text, col_width, size2) ==
  LET wide == {k \in 1..Len(text) : text[k] \in WideToks}
      w2 == 2 * Cardinality(wide) + (Len(text) - Cardinality(wide))
  IN w2 * size2 * 12700 <= 4 * (col_width - 2 * 91440)

\* C20: _calc_font_size_for_cell returns "no change" when the text is empty
\* or fits at 10.5pt; otherwise the largest of the sizes 10.0, 9.5, ..., 7.0
\* at which the text fits the column less 91440 EMU on each side, and 7.0
\* when it fits at none; the result is never below 7.0 nor at or above 10.5.
C20_FirstFittingSize ==
  (call.fn = "font" /\ ret.done) =>
    LET fitting == {z \in 14..20 : FitsAt(call.text, call.col_width, z)}
    IN /\ ~ret.raised
       /\ IF call.text = EmptyText \/ FitsAt(call.text, call.col_width, 21)
          THEN ret.val = NoFont
          ELSE /\ 14 <= ret.val /\ ret.val < 21
               /\ IF fitting = {} THEN ret.val = 14
                  ELSE ret.val \in fitting /\ \A z \in fitting : z <= ret.val

\* a text of full- and half-width characters that fits exactly at 8.5pt and
\* not at 9.0pt
C20_Witness ==
  /\ call.fn = "font" /\ ret.done
  /\ \E k \in 1..Len(call.text) : call.text[k] \in WideToks
  /\ \E k \in 1..Len(call.text) : call.text[k] \notin WideToks
  /\ ret.val = 17
  /\ EstimateTextWidth2(call.text) * 17 * EmuPerQuarter
       = call.col_width - 2 * DEFAULT_CELL_MARGIN

\* a text that fits at no size: the floor
C20_WitnessFloor ==
  /\ call.fn = "font" /\ ret.done
  /\ ~FitsAt(call.text, call.col_width, 14)
  /\ call.col_width < 2 * DEFAULT_CELL_MARGIN
  /\ ret.val = 14

(***************************************************************************)
(* Monotonic font shrinking                                                *)
(***************************************************************************)
\* the size a cell ends up with, in half points: "no change" is the base size
SelectedSize(r) == IF r = NoFont THEN 21 ELSE r

\* the width of a text in half-width characters
HalfWidths(text) ==
  Len(text) + Cardinality({k \in 1..Len(text) : text[k] \in WideToks})

\* C21 as stated: for a fixed cell width, a string of more characters never
\* receives a larger font size than a string of fewer characters.
C21_LongerNeverLarger ==
  (call.fn = "fontpair" /\ ret.done /\ Len(call.b) > Len(call.a)) =>
    SelectedSize(ret.val.b) <= SelectedSize(ret.val.a)

\* C21, amended: for a fixed cell width, a string whose estimated width
\* (a full-width character counting as two half-width ones) is at least that
\* of another never receives a larger font size than the other.
C21_WiderNeverLarger ==
  (call.fn = "fontpair" /\ ret.done /\ HalfWidths(call.b) >= HalfWidths(call.a)) =>
    SelectedSize(ret.val.b) <= SelectedSize(ret.val.a)

\* the wider text has fewer characters and received the smaller size
C21_Witness ==
  /\ call.fn = "fontpair" /\ ret.done
  /\ HalfWidths(call.b) > HalfWidths(call.a)
  /\ Len(call.b) < Len(call.a)
  /\ ret.val.a = NoFont
  /\ ret.val.b # NoFont
  /\ ret.val.b > 14

(***************************************************************************)
(* Paragraph spacing                                                       *)
(***************************************************************************)
\* the paragraphs of a shape, each named by <<row, column, paragraph>> for a
\* table and <<0, 0, paragraph>> for a text frame
ParaKeys(sh) ==
  IF sh.kind = "table"
  THEN {<<r, j, q>> : r \in 1..Len(sh.tbl.cells), j \in 1..Len(sh.tbl.col_widths),
                      q \in 1..2}
  ELSE {<<0, 0, q>> : q \in 1..2}

HasPara(sh, key) ==
  IF sh.kind = "table" THEN key[3] <= Len(sh.tbl.cells[key[1]][key[2]])
  ELSE sh.kind = "text" /\ key[3] <= Len(sh.paras)

ParaAt(sh, key) ==
  IF sh.kind = "table" THEN sh.tbl.cells[key[1]][key[2]][key[3]]
  ELSE sh.paras[key[3]]

\* the paragraphs the call changed: <<shape before, shape after, key>>
ChangedParas(old, new) ==
  UNION {{<<old[a], new[b], key>> : key \in
            {k \in ParaKeys(old[a]) :
               /\ old[a].id = new[b].id
               /\ HasPara(old[a], k) /\ HasPara(new[b], k)
               /\ ParaAt(old[a], k) # ParaAt(new[b], k)}}
         : a \in 1..Len(old), b \in 1..Len(new)}

SameBox(a, b) ==
  /\ a.left = b.left /\ a.top = b.top
  /\ a.width = b.width /\ a.height = b.height

\* dst is a copy of src as C23 describes it
IsCopy(src, dst) ==
  /\ Len(dst) = Len(src)
  /\ \A n \in 1..Len(src) :
       /\ dst[n].kind = src[n].kind
       /\ SameBox(dst[n], src[n])
       /\ IF src[n].kind = "pic" /\ src[n].img.part # 0
          THEN /\ dst[n].img.part # src[n].img.part
               /\ dst[n].img.part # 0
               /\ [dst[n].img EXCEPT !.part = 0] = [src[n].img EXCEPT !.part = 0]
          ELSE dst[n] = src[n]

\* C23: every _copy_slide that has returned appended exactly one slide to
\* the target document, made of one copy per shape of the source slide in
\* the source's order and nothing from the layout, each with the source
\* shape's left, top, width and height, and each picture with an image part
\* of its own, not the source's.
C23_CopyMatchesSource ==
  pc = "merge" =>
    /\ Len(base_prs) = copy.i - 1
    /\ \A k \in 2..Len(base_prs) :
         IsCopy(tmpDocs[temp_pptx_paths[k]], base_prs[k])

\* a slide with a picture of the template between a table and the texts and
\* a chart at the end was copied
C23_Witness ==
  /\ pc = "merge"
  /\ Len(base_prs) >= 2
  /\ LET src == tmpDocs[temp_pptx_paths[2]]
     IN /\ \E n \in 1..Len(src) : src[n].kind = "pic" /\ src[n].img.src = "brand"
        /\ \E n \in 2..(Len(src) - 1) :
             /\ src[n].kind = "pic" /\ src[n].img.src = "template"
             /\ src[n - 1].kind = "table" /\ src[n + 1].kind = "text"
        /\ \E n \in 1..Len(src) : src[n].kind = "table"
        /\ \E n \in 2..Len(src) : src[n].kind = "text" /\ src[n - 1].kind = "pic"
        /\ IsCopy(src, base_prs[2])

(***************************************************************************)
(* One picture, one image role                                             *)
(***************************************************************************)
\* no picture is bound to two image roles
ImageRolesDistinct(refs) ==
  \A r1, r2 \in ImageRoles : (r1 # r2 /\ refs[r1] # 0) => refs[r1] # refs[r2]

\* C24: _detect_shapes never binds one picture to two of the image roles, so
\* on a slide where every role was found and the table can be filled no
\* image swap of generate_single_report fails.
C24_NoPictureBoundTwice ==
  /\ (call.fn = "detect" /\ ret.done) => ImageRolesDistinct(ret.val)
  /\ (call.fn = "generate" /\ ret.done) =>
       LET refs == DetectShapes(call.slide)
       IN /\ ImageRolesDistinct(refs)
          /\ (/\ \A role \in WarnedRoles : refs[role] # 0
              /\ ~FillRaises(ShapeById(call.slide, refs["table"])))
             => ~ret.raised

(***************************************************************************)
(* Intermediate files of the entities                                      *)
(***************************************************************************)
\* C25: while the entities are generated and merged, the intermediate
\* documents of different entities lie at different paths, their chart files
\* too, and the document at the path of the k-th entity is the slide
\* generated for that entity.
C25_OwnIntermediateFiles ==
  pc \in {"generate", "merge"} =>
    /\ \A k, m \in 1..Len(temp_pptx_paths) :
         k # m => temp_pptx_paths[k] # temp_pptx_paths[m]
    /\ \A k, m \in 1..Len(generated) : \A kind \in {"login", "purchase", "brand"} :
         k # m => TmpFile("chart", generated[k].name, kind)
                    # TmpFile("chart", generated[m].name, kind)
    /\ \A k \in 1..Len(temp_pptx_paths) :
         tmpDocs[temp_pptx_paths[k]] = generated[k].slide

====
